---- MODULE Spec2Model ----
(***************************************************************************)
(* Model of the agent chat execution engine of RI-SCALE/model-hub          *)
(* (src/src/pages/AgentPage.tsx and the kernel hook in                     *)
(* src/unnamed/part_010).                                                  *)
(*                                                                         *)
(* Part I   the tool-calling loop _chat_wrapper that runs in the kernel    *)
(*          (specification SpecEngine).                                    *)
(* Part II  the host page: handleSendMessage, handleCancel, the save queue *)
(*          and saveSession's staged write protocol (specification         *)
(*          SpecPage; SpecTurn follows one turn).                          *)
(* Part III the bridge window.hypha_chat_proxy with its service resolution *)
(*          (specification SpecBridge).                                    *)
(* Part IV  the kernel's output path: stream events, line buffering, the   *)
(*          response marker and the progress reporter (specification       *)
(*          SpecKernel; SpecRun joins the engine and the page in one turn).*)
(***************************************************************************)
EXTENDS Integers, Sequences, FiniteSets, TLC

VARIABLES
  \* ---- Part I: _chat_wrapper (Python, in the kernel) ----
  wrapper_pc,                 \* "start" | "awaiting" | "tools" | "returned"
  py_messages,                \* the Python list `messages`
  response_message,           \* the message of the last parsed completion
  tool_idx,                   \* position of the for-loop over tool_calls
  turns,
  tool_result_cache,          \* cache_key -> cached function_response
  total_tool_calls,
  successful_tool_calls,
  successful_tool_results,
  timeout_finalize_requested,
  soft_deadline_passed,       \* event loop time >= soft_deadline
  proxy_requests,             \* tool_choice of every hypha_chat_proxy call made
  invocations,                \* cache_key of every call of a tool function
  sent_responses,             \* payloads printed by send_response
  sandbox_globals,            \* globals() of the kernel: name -> signature of
                              \* the function bound to it (0: not a function)
  cached_tool_specs,          \* globals()['__cached_tool_specs'], if set
  cached_tool_names,          \* globals()['__cached_tool_names'], if set
  discovery,                  \* what the run's _discover_tools() returned
  scans,                      \* number of scans of globals() made so far
  executions,                 \* number of runs of _chat_wrapper started
  loadedAgent,                \* the agent whose startup script ran last
  service_answers,            \* what the service returned in the passes of
                              \* every call of the proxy
  \* ---- Part II: the host page (React state, refs, the artifact store) ----
  messages,                   \* useState messages
  isTyping,
  typingSessionKey,
  currentSessionId,
  turn,                       \* every handleSendMessage run, by send number
  saveQueue,                  \* saveQueueRef: the doSave jobs not yet finished
  records,                    \* the artifact store's session records
  faults,                     \* failures the environment has injected
  \* ---- Part III: the bridge window.hypha_chat_proxy ----
  bridge_pc,                  \* "idle" | "resolving" | "completing" | "returned"
  bridge_calls,               \* calls of hypha_chat_proxy made so far
  services,                   \* what server.getService finds for each id
  cachedChatProxyServiceId,
  activeChatProxyServiceId,   \* activeChatProxyServiceIdRef.current
  proxyForAttempt,            \* id of the service the attempt calls
  completion_attempt,         \* `attempt` of the loop of line 1515
  resolve_attempt,            \* `attempt` of the loop of line 1465
  resolve_idx,                \* position of the loop of line 1466
  prioritizedServiceIds,
  lastError,
  lookups,                    \* the lookups of the resolution under way
  tried,                      \* ids whose completion failed in this call
  bridge_result,              \* what the last call returned to the engine
  \* ---- Part IV: the kernel's output path and the progress reporter ----
  stdout,                     \* text the program printed, not yet in an event
  stdoutBuffer,               \* stdoutBufferRef.current
  outputs,                    \* the contents handed to callbacks.onOutput
  resolved,                   \* the value the attempt's promise is resolved
                              \* with (empty while it is pending)
  streamed,                   \* the text the stream events have carried
  kernelStatus,               \* "busy" | "idle"
  settlement,                 \* how the attempt's promise settled (empty
                              \* while `settled` is false)
  timeoutHandle,              \* "none" | "armed" | "cleared"
  callbacks,                  \* the events the attempt's callbacks and its
                              \* timer have been called with
  agentProgress,              \* agentProgressRef.current
  agentProgressDetails,       \* agentProgressDetailsRef.current
  elapsedSeconds,             \* the time since requestStartedAt, as the
                              \* heartbeat has counted it
  outputObserved              \* whether the behaviour follows what is printed
                              \* and reported

toolVars == <<sandbox_globals, cached_tool_specs, cached_tool_names, discovery,
              scans, executions, loadedAgent>>

engineVars == <<wrapper_pc, py_messages, response_message, tool_idx, turns,
                tool_result_cache, total_tool_calls, successful_tool_calls,
                successful_tool_results, timeout_finalize_requested,
                soft_deadline_passed, proxy_requests, invocations,
                sent_responses, service_answers, toolVars>>

pageVars == <<messages, isTyping, typingSessionKey, currentSessionId, turn,
              saveQueue, records, faults>>

bridgeVars == <<bridge_pc, bridge_calls, services, cachedChatProxyServiceId,
                activeChatProxyServiceId, proxyForAttempt, completion_attempt,
                resolve_attempt, resolve_idx, prioritizedServiceIds, lastError,
                lookups, tried, bridge_result>>

attemptVars == <<settlement, timeoutHandle, callbacks>>

hookVars == <<stdoutBuffer, outputs, resolved, streamed, kernelStatus, attemptVars>>

kernelVars == <<stdout, hookVars>>

progressVars == <<agentProgress, agentProgressDetails, elapsedSeconds, outputObserved>>

vars == <<engineVars, pageVars, bridgeVars, kernelVars, progressVars>>

(***************************************************************************)
(* Bounds of the model.                                                    *)
(***************************************************************************)
\* AGENT_TOOL_EXECUTION_LIMIT is 50 in the source (AgentPage.tsx:69); the
\* model runs the same loop with a small limit so that the limit is reached.
AGENT_TOOL_EXECUTION_LIMIT == 2
\* Number of messages the user sends.
MaxSends == 2
\* Number of calls of hypha_chat_proxy.
MaxCalls == 2
\* Number of failures (store errors, HTTP errors, a failing getService) the
\* environment injects in one behaviour.
MaxFaults == 2
\* Largest number of characters of a stream event that carries a part of
\* what the program has written (the marker prefix has 19 characters).
MaxChunk == 24
\* Number of runs of _chat_wrapper in one sandbox.
MaxExecutions == 3
\* Largest number of events an execution attempt receives.
MaxEvents == 4
\* Largest number of ticks of the progress heartbeat in one turn (more than
\* the progress trace holds details).
MaxHeartbeats == 31

(***************************************************************************)
(* Part I.  Data of the engine.                                            *)
(***************************************************************************)
NoId == "<no id>"
UnknownToolCallId == "unknown-tool-call-id"
NoValue == "<none>"

\* `part in text` of Python, RegExp.test of a literal pattern in JavaScript.
Contains(text, part) ==
  \E i \in 1..(Len(text) + 1 - Len(part)) : SubSeq(text, i, i + Len(part) - 1) = part

\* The `arguments` of a tool call as the service writes them: JSON text,
\* either malformed or an object given as its key/value pairs in written order.
JsonText(pairs) == [wellformed |-> TRUE, pairs |-> pairs]
ArgsA  == JsonText(<< <<"q", "tumor">>, <<"n", "5">> >>)
ArgsA2 == JsonText(<< <<"n", "5">>, <<"q", "tumor">> >>)
ArgsB  == JsonText(<< <<"q", "mouse">> >>)
Malformed == [wellformed |-> FALSE, pairs |-> << >>]

\* json.loads of an object: a dict, which has no key order.
JsonLoads(text) ==
  LET keys == { text.pairs[i][1] : i \in DOMAIN text.pairs }
  IN  [k \in keys |-> text.pairs[CHOOSE i \in DOMAIN text.pairs : text.pairs[i][1] = k][2]]

\* json.dumps(function_args, sort_keys=True): one text per dict, whatever the
\* order its keys were written in.
JsonDumpsSorted(dict) == { <<k, dict[k]>> : k \in DOMAIN dict }

CacheKey(function_name, function_args) ==
  <<function_name, JsonDumpsSorted(function_args)>>

ToolCall(id, name, arguments) == [id |-> id, name |-> name, arguments |-> arguments]

\* The names the kernel's globals may bind, in the order globals().items()
\* yields them, and the signatures a function bound to a name may have.
SandboxNames == << "send_response", "search", "lookup", "_helper" >>
NotAFunction == 0
Signatures == {1, 2}
_EXCLUDED_TOOL_NAMES ==
  {"send_response", "_chat_wrapper", "_discover_tools", "exit", "quit",
   "get_ipython", "open", "print", "help", "AsyncOpenAI", "traceback",
   "inspect", "json", "js", "asyncio", "hypha_chat_proxy", "base64"}

\* The sandbox of the agent: its startup script has defined the one tool
\* `search`.
AgentSandbox ==
  [name \in {"send_response", "search", "lookup", "_helper"} |->
     IF name \in {"send_response", "search"} THEN 1 ELSE NotAFunction]

\* A tool spec built from a function's signature (lines 1963-1992).
ToolSpec(name, signature) == [name |-> name, parameters |-> signature]
SpecNames(tools) == [i \in DOMAIN tools |-> tools[i].name]
ElementsOf(seq) == { seq[i] : i \in DOMAIN seq }

\* The scan of globals(), lines 1952-1993: the user functions whose names
\* neither start with an underscore nor are excluded.
IsToolName(globals, name) ==
  /\ globals[name] # NotAFunction
  /\ SubSeq(name, 1, 1) # "_"
  /\ name \notin _EXCLUDED_TOOL_NAMES
ScanTools(globals) ==
  LET names == SelectSeq(SandboxNames, LAMBDA name : IsToolName(globals, name))
  IN  [i \in DOMAIN names |-> ToolSpec(names[i], globals[names[i]])]

\* The test of line 1949: every cached name still resolves to a function.
CacheIsUsable_always(resolving, cached_names) == TRUE
CacheIsUsable(resolving, cached_names) ==
  Cardinality(resolving) = Len(cached_names)

\* _discover_tools, lines 1939-1997, on the globals and the two cached
\* lists (each << >> when unset, << list >> when set): what it returns and
\* what it leaves in the cache.
_discover_tools(globals, cached_specs, cached_names) ==
  LET cached == cached_specs # << >> /\ cached_names # << >>
      resolving == IF cached
                     THEN { name \in ElementsOf(cached_names[1]) :
                              globals[name] # NotAFunction }
                     ELSE {}
      tools == ScanTools(globals)
  IN  IF cached /\ CacheIsUsable(resolving, cached_names[1])
        THEN [tools |-> cached_specs[1], available_functions |-> resolving,
              reused_cached_tools |-> TRUE, scanned |-> FALSE,
              cached_specs |-> cached_specs, cached_names |-> cached_names]
        ELSE [tools |-> tools,
              available_functions |-> resolving \cup ElementsOf(SpecNames(tools)),
              reused_cached_tools |-> FALSE, scanned |-> TRUE,
              cached_specs |-> << tools >>, cached_names |-> << SpecNames(tools) >>]

\* The agents of the hub and the tool functions their startup scripts
\* define; the page starts with the first one loaded.
Agents == {"searcher", "curator", "librarian"}
AgentFunctions(agent) ==
  CASE agent = "searcher" -> {"search"}
    [] agent = "curator" -> {"lookup"}
    [] agent = "librarian" -> {"search", "lookup"}
\* The librarian's search takes other parameters than the searcher's.
AgentSignature(agent, name) ==
  IF agent = "librarian" /\ name = "search" THEN 2 ELSE 1

\* What the run got from _discover_tools (line 2004).
Discovered(d) ==
  [tools |-> d.tools, available_functions |-> d.available_functions,
   reused_cached_tools |-> d.reused_cached_tools]
NoDiscovery ==
  [tools |-> << >>, available_functions |-> {}, reused_cached_tools |-> FALSE]

\* The functions the run may call (line 2108).
available_functions == discovery.available_functions

\* str(function_response), line 2124: what the tool returns for its
\* arguments.  The answer to the query "mouse" is longer than the 600
\* characters a summary line keeps.
Chunk == "0123456789"
Chunk100 == Chunk \o Chunk \o Chunk \o Chunk \o Chunk \o Chunk \o Chunk \o Chunk \o Chunk \o Chunk
LongOutput ==
  "mouse:" \o Chunk100 \o Chunk100 \o Chunk100 \o Chunk100 \o Chunk100 \o Chunk100 \o "end"
ToolOutput(function_args) ==
  IF function_args["q"] = "mouse" THEN LongOutput ELSE "output"

Message(role, content) ==
  [role |-> role, content |-> content, tool_calls |-> << >>,
   tool_call_id |-> NoValue, name |-> NoValue]

AssistantMessage(content, tool_calls) ==
  [role |-> "assistant", content |-> content, tool_calls |-> tool_calls,
   tool_call_id |-> NoValue, name |-> NoValue]

ToolMessage(tool_call_id, name, content) ==
  [role |-> "tool", content |-> content, tool_calls |-> << >>,
   tool_call_id |-> tool_call_id, name |-> name]

\* The history handed to the engine: the system prompt and the user message.
InitialHistory == << Message("system", "prompt"), Message("user", "question") >>

\* The tool_calls lists a completion may carry (ids are the service's).
ToolCallLists ==
  { << ToolCall("c1", "search", ArgsA) >>,
    << ToolCall("c1", "search", ArgsA2) >>,
    << ToolCall("c1", "search", ArgsA), ToolCall("c2", "search", ArgsA2) >>,
    << ToolCall("c2", "search", ArgsB), ToolCall("c1", "search", ArgsA) >>,
    << ToolCall("c1", "search", Malformed), ToolCall("c2", "lookup", ArgsA) >>,
    << ToolCall(NoId, "search", Malformed), ToolCall("c2", "search", ArgsB) >>,
    << ToolCall(NoId, "search", ArgsA) >>,
    << ToolCall("c1", "search", ArgsA), ToolCall("c2", "search", ArgsB),
       ToolCall("c3", "search", ArgsA2) >> }

\* What hypha_chat_proxy can return: a completion (plain or with tool_calls),
\* an {"error": ...} payload, or text that json.loads rejects.
Completion(content, tool_calls) ==
  [kind |-> "choices", message |-> AssistantMessage(content, tool_calls)]
ErrorPayload == [kind |-> "error", message |-> Message("none", "timed out")]
Unparseable == [kind |-> "unparseable", message |-> Message("none", "<html>")]

Payloads ==
  { Completion("answer", << >>) }
    \cup { Completion("thinking", tcs) : tcs \in ToolCallLists }
    \cup { ErrorPayload, Unparseable }

(***************************************************************************)
(* Part I.  The text the engine prints: JSON and the response marker line. *)
(***************************************************************************)
RESPONSE_MARKER == "__RESPONSE_START__:"

Char(text, i) == SubSeq(text, i, i)

\* text.indexOf(part) + 1: the first position of `part` in `text`, 0 if none.
IndexOf(text, part) ==
  LET hits == { i \in 1..(Len(text) + 1 - Len(part)) :
                  SubSeq(text, i, i + Len(part) - 1) = part }
  IN  IF hits = {} THEN 0 ELSE CHOOSE i \in hits : \A j \in hits : i <= j

\* The first position of one of the characters `chars` in `text`, 0 if none.
FirstOf(text, chars) ==
  LET hits == { i \in 1..Len(text) : Char(text, i) \in chars }
  IN  IF hits = {} THEN 0 ELSE CHOOSE i \in hits : \A j \in hits : i <= j

\* The characters a JSON string literal writes with a backslash.
JsonSpecials == {"\"", "\\", "\n"}
JsonEscapeOf(c) == IF c = "\n" THEN "\\n" ELSE "\\" \o c

RECURSIVE JsonEscape(_)
JsonEscape(text) ==
  LET i == FirstOf(text, JsonSpecials)
  IN  IF i = 0 THEN text
      ELSE SubSeq(text, 1, i - 1) \o JsonEscapeOf(Char(text, i))
             \o JsonEscape(SubSeq(text, i + 1, Len(text)))

\* json.dumps({"text": text}) of send_response (line 1930); None is written
\* null.
JsonDumpsData(text) ==
  IF text = NoValue THEN "{\"text\": null}"
  ELSE "{\"text\": \"" \o JsonEscape(text) \o "\"}"

\* JSON.stringify({text}) of line 2214 (no blank after the colon).
JsonStringify(text) ==
  IF text = NoValue THEN "{\"text\":null}"
  ELSE "{\"text\":\"" \o JsonEscape(text) \o "\"}"

\* The body of a JSON string literal read back: its text, or a syntax error
\* (a bare quote or line break, an unknown or unfinished escape).
JsonSyntaxError == [ok |-> FALSE, text |-> NoValue]
RECURSIVE JsonUnescape(_)
JsonUnescape(body) ==
  LET i == FirstOf(body, JsonSpecials)
  IN  IF i = 0 THEN [ok |-> TRUE, text |-> body]
      ELSE IF Char(body, i) # "\\" \/ i = Len(body) THEN JsonSyntaxError
      ELSE IF Char(body, i + 1) \notin {"\"", "\\", "n"} THEN JsonSyntaxError
      ELSE LET rest == JsonUnescape(SubSeq(body, i + 2, Len(body)))
               c == IF Char(body, i + 1) = "n" THEN "\n" ELSE Char(body, i + 1)
           IN  IF rest.ok
                 THEN [ok |-> TRUE, text |-> SubSeq(body, 1, i - 1) \o c \o rest.text]
                 ELSE JsonSyntaxError

HasPrefix(text, prefix) ==
  Len(text) >= Len(prefix) /\ SubSeq(text, 1, Len(prefix)) = prefix
HasSuffix(text, suffix) ==
  Len(text) >= Len(suffix) /\ SubSeq(text, Len(text) + 1 - Len(suffix), Len(text)) = suffix

\* JSON.parse of line 2213 for the payloads send_response writes: an object
\* with the one member "text" (a string or null); any other text is a
\* syntax error here.
JsonParse(jsonStr) ==
  LET open == "{\"text\": \""
      close == "\"}"
  IN  IF jsonStr = "{\"text\": null}" THEN [ok |-> TRUE, text |-> NoValue]
      ELSE IF HasPrefix(jsonStr, open) /\ HasSuffix(jsonStr, close)
              /\ Len(jsonStr) >= Len(open) + Len(close)
        THEN JsonUnescape(SubSeq(jsonStr, Len(open) + 1, Len(jsonStr) - Len(close)))
        ELSE JsonSyntaxError

\* String.prototype.trim.
WhiteSpace == {" ", "\n", "\t", "\r"}
Trim(text) ==
  LET Inked(i) == Char(text, i) \notin WhiteSpace
  IN  IF \A i \in 1..Len(text) : ~Inked(i) THEN ""
      ELSE SubSeq(text,
                  CHOOSE i \in 1..Len(text) : Inked(i) /\ \A j \in 1..(i - 1) : ~Inked(j),
                  CHOOSE i \in 1..Len(text) :
                    Inked(i) /\ \A j \in (i + 1)..Len(text) : ~Inked(j))

\* content.split('__RESPONSE_START__:')[1]: the text between the first
\* marker and the next one (or the end of the content).
AfterMarker(content) ==
  LET after == SubSeq(content, IndexOf(content, RESPONSE_MARKER) + Len(RESPONSE_MARKER),
                      Len(content))
      next == IndexOf(after, RESPONSE_MARKER)
  IN  IF next = 0 THEN after ELSE SubSeq(after, 1, next - 1)

\* `parsed.text || JSON.stringify(parsed)`: null and the empty string are
\* falsy.
TextOrStringified(text) ==
  IF text \in {NoValue, ""} THEN JsonStringify(text) ELSE text

\* The value safeResolve is called with for a stdout content that holds the
\* marker (lines 2208-2218).
ExtractResponse(content) ==
  LET jsonStr == Trim(AfterMarker(content))
      parsed == JsonParse(jsonStr)
  IN  IF parsed.ok THEN TextOrStringified(parsed.text) ELSE jsonStr

\* send_response (lines 1929-1930): the line it prints.
MarkerLine(text) == RESPONSE_MARKER \o JsonDumpsData(text)

\* getChatProxyServiceIds of a development build (lines 120-150): the
\* branch's proxy, the configured proxy and the default one.
CHAT_PROXY_SERVICE_IDS ==
  << "ri-scale/default@chat-proxy-dev-branch",
     "ri-scale/default@chat-proxy-configured",
     "ri-scale/default@chat-proxy-dev" >>
CHAT_PROXY_SERVICE_ID == CHAT_PROXY_SERVICE_IDS[1]
CandidateIds == { CHAT_PROXY_SERVICE_IDS[i] : i \in DOMAIN CHAT_PROXY_SERVICE_IDS }

\* print(line) for each of `lines`; the text is followed in the
\* specifications of Part IV only.
RECURSIVE PrintedText(_)
PrintedText(lines) ==
  IF lines = << >> THEN "" ELSE lines[1] \o "\n" \o PrintedText(Tail(lines))

PrintLines(lines) ==
  stdout' = IF outputObserved THEN stdout \o PrintedText(lines) ELSE stdout

\* json.dumps of a string or None.
JsonValue(text) ==
  IF text = NoValue THEN "null" ELSE "\"" \o JsonEscape(text) \o "\""

RECURSIVE JoinWith(_, _)
JoinWith(items, separator) ==
  IF items = << >> THEN ""
  ELSE IF Len(items) = 1 THEN items[1]
  ELSE items[1] \o separator \o JoinWith(Tail(items), separator)

\* json.dumps of a message; of a tool call the id and the function's name
\* are written, the arguments text is left out of the line.
JsonOfToolCall(tc) ==
  "{" \o (IF tc.id = NoId THEN "" ELSE "\"id\": \"" \o tc.id \o "\", ")
      \o "\"function\": {\"name\": \"" \o tc.name \o "\"}}"
JsonOfMessage(m) ==
  "{\"role\": \"" \o m.role \o "\", \"content\": " \o JsonValue(m.content)
    \o (IF m.tool_calls = << >> THEN ""
        ELSE ", \"tool_calls\": ["
               \o JoinWith([i \in DOMAIN m.tool_calls |-> JsonOfToolCall(m.tool_calls[i])], ", ")
               \o "]")
    \o (IF m.role # "tool" THEN ""
        ELSE ", \"tool_call_id\": \"" \o m.tool_call_id \o "\", \"name\": \""
               \o m.name \o "\"")
    \o "}"
JsonOfMessages(msgs) ==
  "[" \o JoinWith([i \in DOMAIN msgs |-> JsonOfMessage(msgs[i])], ", ") \o "]"

\* json.dumps(result) of what the proxy returns (line 1281).
JsonOfResult(payload) ==
  IF payload.kind = "choices"
    THEN "{\"choices\": [{\"message\": " \o JsonOfMessage(payload.message) \o "}]}"
  ELSE IF payload.kind = "error"
    THEN "{\"error\": " \o JsonValue(payload.message.content) \o "}"
  ELSE payload.message.content

\* A list of strings as Python writes it.
PyListRepr(names) ==
  "[" \o JoinWith([i \in DOMAIN names |-> "'" \o names[i] \o "'"], ", ") \o "]"
\* The written form of a dict, in the order its keys were written.
PyDictRepr(pairs) ==
  "{" \o JoinWith([i \in DOMAIN pairs |->
                     "'" \o pairs[i][1] \o "': '" \o pairs[i][2] \o "'"], ", ") \o "}"

ChatModel == "gpt"

\* Lines 2005-2009: nothing is printed when there are no tools.
DiscoveryLines(d) ==
  LET tool_names == SpecNames(d.tools)
  IN  IF d.tools = << >> THEN << >>
      ELSE IF d.reused_cached_tools
        THEN << "Reusing cached tools: " \o PyListRepr(tool_names) >>
      ELSE << "Discovered " \o ToString(Len(tool_names)) \o " tools: "
                \o PyListRepr(tool_names) >>
\* json.dumps(tools); of a tool spec its name is written.
JsonOfTools(tools) ==
  "[" \o JoinWith([i \in DOMAIN tools |->
                     "{\"type\": \"function\", \"function\": {\"name\": \""
                       \o tools[i].name \o "\"}}"], ", ") \o "]"
CallingProxyLine == "DEBUG: Calling hypha_chat_proxy internal function..."      \* line 2018

\* hypha_chat_proxy (Python), lines 1269-1276: what it prints before the call.
ProxyRequestLines(msgs, tools, tool_choice) ==
  << "DEBUG: Python-only proxy path; messages=" \o ToString(Len(msgs)) \o "; model="
       \o ChatModel,
     "TRACE: proxy request messages => " \o JsonOfMessages(msgs) >>
    \o (IF tools = << >> THEN << >>
        ELSE << "TRACE: proxy request tools => " \o JsonOfTools(tools),
                "TRACE: proxy tool_choice => \"" \o tool_choice \o "\"" >>)

\* _is_timeout_payload, lines 1049-1055 (the texts of the model are in lower
\* case).
_is_timeout_payload(payload) ==
  /\ payload.kind = "error"
  /\ Contains(payload.message.content, "timed out")
       \/ Contains(payload.message.content, "timeout")

\* One pass of the loop of _python_fallback_chat_completion whose call of
\* chat_completion returns (lines 1202-1230): what it prints.
FallbackAttemptLines(attempt) ==
  << "DEBUG: Connecting to Hypha server for chat proxy (attempt " \o ToString(attempt)
       \o ")...",
     "DEBUG: Python fallback resolved chat-proxy service via " \o CHAT_PROXY_SERVICE_IDS[1],
     "DEBUG: Python fallback chat_completion returned successfully" >>

\* _python_fallback_chat_completion, lines 1197-1255, from pass `attempt`
\* on: answers[i] is what chat_completion returns in pass i.
FallbackLastAttempt == 2                \* range(1, 3)
RECURSIVE FallbackFrom(_, _)
FallbackFrom(attempt, answers) ==
  IF _is_timeout_payload(answers[attempt]) /\ attempt < FallbackLastAttempt
    THEN LET later == FallbackFrom(attempt + 1, answers)
         IN  [result |-> later.result,
              printed |-> FallbackAttemptLines(attempt)
                            \o << "DEBUG: Python fallback received timeout payload, retrying..." >>
                            \o later.printed]
    ELSE [result |-> answers[attempt], printed |-> FallbackAttemptLines(attempt)]
_python_fallback_chat_completion(answers) == FallbackFrom(1, answers)

\* hypha_chat_proxy (Python), lines 1278-1281: the call and what is printed.
ProxyResponseLine(result) == "TRACE: proxy response => " \o JsonOfResult(result)
\* Line 2026: the first 100 characters of the result.
ReturnedLine(result) ==
  LET result_json == JsonOfResult(result)
  IN  "DEBUG: hypha_chat_proxy returned: "
        \o (IF Len(result_json) <= 100 THEN result_json ELSE SubSeq(result_json, 1, 100))
        \o "..."
\* What _chat_wrapper and the proxy print up to the first request.
StartLines(msgs, d) ==
  DiscoveryLines(d) \o << CallingProxyLine >> \o ProxyRequestLines(msgs, d.tools, "auto")
\* What is printed when the proxy's call `call` returns: `final` holds the
\* text send_response is called with, if the run ends here.
ReturnLines(call, first_call, final) ==
  call.printed
    \o << ProxyResponseLine(call.result) >>
    \o (IF first_call THEN << ReturnedLine(call.result) >> ELSE << >>)
    \o [i \in DOMAIN final |-> MarkerLine(final[i])]

CallingToolLine(tc) ==                   \* line 2111
  "Calling tool: " \o tc.name \o "(" \o PyDictRepr(tc.arguments.pairs) \o ")"
UsingCachedLine(tc) == "Using cached tool result: " \o tc.name      \* line 2116

(***************************************************************************)
(* Part I.  _chat_wrapper.                                                 *)
(***************************************************************************)
max_turns == AGENT_TOOL_EXECUTION_LIMIT

send_response_twice(text) == sent_responses' = sent_responses \o << text, text >>
send_response(text) == sent_responses' = Append(sent_responses, text)

\* tool_choice of the next request (AgentPage.tsx:2162).
next_tool_choice_always_auto(finalize_requested) == "auto"
next_tool_choice(finalize_requested) ==
  IF finalize_requested THEN "none" ELSE "auto"

EngineInit ==
  /\ wrapper_pc = "start"
  /\ py_messages = InitialHistory
  /\ response_message = Message("none", NoValue)
  /\ tool_idx = 0
  /\ turns = 0
  /\ tool_result_cache = << >>
  /\ total_tool_calls = 0
  /\ successful_tool_calls = 0
  /\ successful_tool_results = << >>
  /\ timeout_finalize_requested = FALSE
  /\ soft_deadline_passed = FALSE
  /\ proxy_requests = << >>
  /\ invocations = << >>
  /\ sent_responses = << >>
  /\ service_answers = << >>
  /\ sandbox_globals = AgentSandbox
  /\ cached_tool_specs = << >>
  /\ cached_tool_names = << >>
  /\ discovery = NoDiscovery
  /\ scans = 0
  /\ executions = 0
  /\ loadedAgent = "searcher"

\* tool_choice is sent with the request only when there are tools (lines
\* 2016 and 2163).
ToolChoiceSent(tools, tool_choice) == IF tools = << >> THEN NoValue ELSE tool_choice

\* Lines 2000-2025: decode the history, discover the tools, first request.
ChatWrapperStart ==
  /\ UNCHANGED <<pageVars, bridgeVars, hookVars, progressVars>>
  /\ wrapper_pc = "start"
  /\ wrapper_pc' = "awaiting"
  /\ LET d == _discover_tools(sandbox_globals, cached_tool_specs, cached_tool_names)
     IN /\ discovery' = Discovered(d)
        /\ cached_tool_specs' = d.cached_specs
        /\ cached_tool_names' = d.cached_names
        /\ scans' = IF d.scanned THEN scans + 1 ELSE scans
        /\ proxy_requests' = Append(proxy_requests, ToolChoiceSent(d.tools, "auto"))
        /\ PrintLines(StartLines(py_messages, d))
  /\ executions' = executions + 1
  /\ UNCHANGED <<py_messages, response_message, tool_idx, turns,
                 tool_result_cache, total_tool_calls, successful_tool_calls,
                 successful_tool_results, timeout_finalize_requested,
                 soft_deadline_passed, invocations, sent_responses,
                 service_answers, sandbox_globals, loadedAgent>>

\* _short_text, lines 2053-2057.
_short_text_uncut(value, max_len) == value
_short_text(value, max_len) ==
  IF Len(value) <= max_len THEN value ELSE SubSeq(value, 1, max_len) \o "..."

\* "\n".join(lines)
RECURSIVE Join(_)
Join(lines) ==
  IF lines = << >> THEN ""
  ELSE IF Len(lines) = 1 THEN lines[1]
  ELSE lines[1] \o "\n" \o Join(Tail(lines))

SummaryHeader == "I executed the available tool(s) and collected these results:"

\* _summarize_tool_results, lines 2059-2072.  An item of
\* successful_tool_results is <<name, output>>.
_summarize_tool_results ==
  IF successful_tool_results = << >> THEN NoValue
  ELSE LET shown == IF Len(successful_tool_results) <= 5 THEN successful_tool_results
                    ELSE SubSeq(successful_tool_results, 1, 5)
           lines == << SummaryHeader >>
                    \o [index \in DOMAIN shown |->
                          ToString(index) \o ". " \o shown[index][1] \o ": "
                            \o _short_text(shown[index][2], 600)]
           rest == IF Len(successful_tool_results) > 5
                     THEN << "...and " \o ToString(Len(successful_tool_results) - 5)
                               \o " more tool result(s)." >>
                     ELSE << >>
       IN Join(lines \o rest)

\* The final text when a completion call fails: lines 2028-2036 for the first
\* call, lines 2170-2188 for a follow-up call (the apostrophe of the source
\* text is written in ASCII).
FailureText(payload) ==
  LET summary_text == _summarize_tool_results
      kind == payload.kind
      error == payload.message.content
  IN IF successful_tool_calls > 0 /\ summary_text \notin {NoValue, ""}
       THEN summary_text \o "\n\n"
              \o (IF kind = "error"
                    THEN "I'm returning the best results gathered so far because the follow-up model call failed: " \o error
                    ELSE "I'm returning the best results gathered so far because a follow-up model response could not be parsed (Invalid JSON response).")
     ELSE IF kind = "error" THEN "Error from proxy: " \o error
                            ELSE "Error from proxy: Invalid JSON response"

LimitText == "I reached the tool execution limit before finishing. Please try again."

\* The loop's limit test (line 2082).
LimitReached_off_by_one(t) == t > max_turns
LimitReached(t) == t >= max_turns

\* Lines 2028-2041 (first call) and 2170-2190 (follow-up calls), then the
\* head of the while loop, lines 2075-2086.
\* `answers` is what the service's chat_completion returns in the
\* successive passes of the proxy's loop.
ProxyAnswers(answers) ==
  /\ UNCHANGED <<pageVars, bridgeVars, hookVars, progressVars>>
  /\ wrapper_pc = "awaiting"
  /\ LET call == _python_fallback_chat_completion(answers)
         payload == call.result
         final == IF payload.kind # "choices" THEN << FailureText(payload) >>
                  ELSE IF payload.message.tool_calls = << >>
                    THEN << payload.message.content >>
                  ELSE IF LimitReached(turns) THEN << LimitText >>
                  ELSE << >>
     IN
     /\ PrintLines(ReturnLines(call, Len(proxy_requests) = 1, final))
     /\ service_answers' = Append(service_answers, answers)
     /\ IF payload.kind # "choices"
       THEN /\ send_response(FailureText(payload))
            /\ wrapper_pc' = "returned"
            /\ UNCHANGED <<py_messages, response_message, tool_idx>>
       ELSE /\ response_message' = payload.message
            /\ IF payload.message.tool_calls = << >>
                 THEN /\ send_response(payload.message.content)
                      /\ wrapper_pc' = "returned"
                      /\ UNCHANGED <<py_messages, tool_idx>>
                 ELSE IF LimitReached(turns)
                   THEN /\ send_response(LimitText)
                        /\ wrapper_pc' = "returned"
                        /\ UNCHANGED <<py_messages, tool_idx>>
                   ELSE /\ py_messages' = Append(py_messages, payload.message)
                        /\ tool_idx' = 1
                        /\ wrapper_pc' = "tools"
                        /\ UNCHANGED sent_responses
  /\ UNCHANGED <<turns, tool_result_cache, total_tool_calls,
                 successful_tool_calls, successful_tool_results,
                 timeout_finalize_requested, soft_deadline_passed,
                 proxy_requests, invocations, toolVars>>

\* The service answers every pass of the proxy's loop with `payload`.
ProxyReturns(payload) == ProxyAnswers(<< payload, payload >>)

\* The tool message of each branch of the for-loop body.
InvalidArgumentsMessage(tc) ==          \* lines 2098-2105
  ToolMessage(IF tc.id = NoId THEN UnknownToolCallId ELSE tc.id, tc.name,
              "Error: Invalid tool arguments")
ResultMessage(tc, text) ==              \* lines 2131-2136
  ToolMessage(tc.id, tc.name, text)
RaisedMessage_without_error(tc) == ToolMessage(tc.id, tc.name, "")
RaisedMessage(tc) ==                    \* lines 2137-2144
  ToolMessage(tc.id, tc.name, "Error: raised")
NotAvailableMessages_dropped(tc) == << >>
NotAvailableMessages(tc) ==             \* lines 2145-2151
  << ToolMessage(tc.id, tc.name, "Error: Tool is not available.") >>

\* One pass of the for-loop body, lines 2088-2151.  `raises` is what the
\* tool function does if it is called.
ExecuteToolCall(raises) ==
  /\ UNCHANGED <<pageVars, bridgeVars, hookVars, progressVars>>
  /\ wrapper_pc = "tools"
  /\ tool_idx <= Len(response_message.tool_calls)
  /\ LET tc == response_message.tool_calls[tool_idx]
         key == CacheKey(tc.name, JsonLoads(tc.arguments))
         cached == key \in DOMAIN tool_result_cache
         function_response == ToolOutput(JsonLoads(tc.arguments))
         printed == IF ~tc.arguments.wellformed THEN << >>
                    ELSE IF tc.id = NoId THEN << MarkerLine("Error executing chat") >>
                    ELSE IF tc.name \notin available_functions THEN << >>
                    ELSE IF cached THEN << CallingToolLine(tc), UsingCachedLine(tc) >>
                    ELSE << CallingToolLine(tc) >>
     IN
     /\ PrintLines(printed)
     /\ total_tool_calls' = total_tool_calls + 1
     /\ IF ~tc.arguments.wellformed
          THEN \* json.loads raised: error message, continue
               /\ py_messages' = Append(py_messages, InvalidArgumentsMessage(tc))
               /\ tool_idx' = tool_idx + 1
               /\ UNCHANGED <<wrapper_pc, tool_result_cache, successful_tool_calls,
                              successful_tool_results, invocations, sent_responses>>
          ELSE IF tc.id = NoId
          THEN \* tool_call['id'] raises KeyError: the outer except, line 2192
               /\ send_response("Error executing chat")
               /\ wrapper_pc' = "returned"
               /\ UNCHANGED <<py_messages, tool_idx, tool_result_cache,
                              successful_tool_calls, successful_tool_results,
                              invocations>>
          ELSE IF tc.name \notin available_functions
          THEN /\ py_messages' = py_messages \o NotAvailableMessages(tc)
               /\ tool_idx' = tool_idx + 1
               /\ UNCHANGED <<wrapper_pc, tool_result_cache, successful_tool_calls,
                              successful_tool_results, invocations, sent_responses>>
          ELSE IF cached
          THEN /\ py_messages' =
                    Append(py_messages, ResultMessage(tc, tool_result_cache[key]))
               /\ successful_tool_calls' = successful_tool_calls + 1
               /\ successful_tool_results' =
                    Append(successful_tool_results, <<tc.name, tool_result_cache[key]>>)
               /\ tool_idx' = tool_idx + 1
               /\ UNCHANGED <<wrapper_pc, tool_result_cache, invocations, sent_responses>>
          ELSE /\ invocations' = Append(invocations, key)
               /\ IF raises
                    THEN /\ py_messages' = Append(py_messages, RaisedMessage(tc))
                         /\ UNCHANGED <<tool_result_cache, successful_tool_calls,
                                        successful_tool_results>>
                    ELSE /\ tool_result_cache' =
                              [k \in DOMAIN tool_result_cache \cup {key} |->
                                 IF k = key THEN function_response
                                            ELSE tool_result_cache[k]]
                         /\ py_messages' =
                              Append(py_messages, ResultMessage(tc, function_response))
                         /\ successful_tool_calls' = successful_tool_calls + 1
                         /\ successful_tool_results' =
                              Append(successful_tool_results,
                                     <<tc.name, function_response>>)
               /\ tool_idx' = tool_idx + 1
               /\ UNCHANGED <<wrapper_pc, sent_responses>>
  /\ UNCHANGED <<response_message, turns, timeout_finalize_requested,
                 soft_deadline_passed, proxy_requests, service_answers, toolVars>>

FinalizeMessage == Message("system", "Provide the best possible final answer now.")

\* After the for-loop, lines 2153-2169: the soft deadline, turns += 1 and the
\* next request.
FinishToolRound ==
  /\ UNCHANGED <<pageVars, bridgeVars, hookVars, progressVars>>
  /\ wrapper_pc = "tools"
  /\ tool_idx > Len(response_message.tool_calls)
  /\ LET finalize_now == soft_deadline_passed /\ ~timeout_finalize_requested
         requested == timeout_finalize_requested \/ finalize_now
     IN /\ timeout_finalize_requested' = requested
        /\ py_messages' = IF finalize_now THEN Append(py_messages, FinalizeMessage)
                                          ELSE py_messages
        /\ proxy_requests' =
             Append(proxy_requests,
                    ToolChoiceSent(discovery.tools, next_tool_choice(requested)))
        /\ PrintLines(ProxyRequestLines(py_messages', discovery.tools,
                                        next_tool_choice(requested)))
  /\ turns' = turns + 1
  /\ wrapper_pc' = "awaiting"
  /\ UNCHANGED <<response_message, tool_idx, tool_result_cache, total_tool_calls,
                 successful_tool_calls, successful_tool_results,
                 soft_deadline_passed, invocations, sent_responses, service_answers,
                 toolVars>>

\* The event loop's clock reaches soft_deadline (line 2045) during the run.
SoftDeadlineElapses ==
  /\ UNCHANGED <<pageVars, bridgeVars, kernelVars, progressVars>>
  /\ wrapper_pc \in {"awaiting", "tools"}
  /\ ~soft_deadline_passed
  /\ soft_deadline_passed' = TRUE
  /\ UNCHANGED <<wrapper_pc, py_messages, response_message, tool_idx, turns,
                 tool_result_cache, total_tool_calls, successful_tool_calls,
                 successful_tool_results, timeout_finalize_requested,
                 proxy_requests, invocations, sent_responses, service_answers,
                 toolVars>>

\* The page executes the engine's program again in the same kernel (line
\* 2199): the program's locals start afresh, the kernel's globals stay.
NextExecution ==
  /\ UNCHANGED <<pageVars, bridgeVars, kernelVars, progressVars>>
  /\ wrapper_pc = "returned"
  /\ executions < MaxExecutions
  /\ wrapper_pc' = "start"
  /\ py_messages' = InitialHistory
  /\ response_message' = Message("none", NoValue)
  /\ tool_idx' = 0
  /\ turns' = 0
  /\ tool_result_cache' = << >>
  /\ total_tool_calls' = 0
  /\ successful_tool_calls' = 0
  /\ successful_tool_results' = << >>
  /\ timeout_finalize_requested' = FALSE
  /\ soft_deadline_passed' = FALSE
  /\ proxy_requests' = << >>
  /\ invocations' = << >>
  /\ sent_responses' = << >>
  /\ service_answers' = << >>
  /\ UNCHANGED toolVars

\* Code run in the kernel between two runs of the engine (the agent's
\* script, line 1320) binds `name` to a function of the given signature, or
\* to something that is not a function.
ScriptBinds(name, signature) ==
  /\ UNCHANGED <<pageVars, bridgeVars, kernelVars, progressVars>>
  /\ wrapper_pc \in {"start", "returned"}
  /\ sandbox_globals[name] # signature
  /\ sandbox_globals' = [sandbox_globals EXCEPT ![name] = signature]
  /\ UNCHANGED <<wrapper_pc, py_messages, response_message, tool_idx, turns,
                 tool_result_cache, total_tool_calls, successful_tool_calls,
                 successful_tool_results, timeout_finalize_requested,
                 soft_deadline_passed, proxy_requests, invocations,
                 sent_responses, service_answers, cached_tool_specs,
                 cached_tool_names, discovery, scans, executions, loadedAgent>>

\* loadAgent, lines 962-1365: another agent is selected and its startup
\* script is executed in the kernel that is running (line 1320); the script
\* defines the agent's functions, what the kernel's globals held before
\* stays.
loadAgent(agent) ==
  /\ UNCHANGED <<pageVars, bridgeVars, kernelVars, progressVars>>
  /\ wrapper_pc \in {"start", "returned"}
  /\ agent # loadedAgent
  /\ loadedAgent' = agent
  /\ sandbox_globals' = [name \in DOMAIN sandbox_globals |->
                           IF name \in AgentFunctions(agent)
                             THEN AgentSignature(agent, name)
                           ELSE sandbox_globals[name]]
  /\ UNCHANGED <<wrapper_pc, py_messages, response_message, tool_idx, turns,
                 tool_result_cache, total_tool_calls, successful_tool_calls,
                 successful_tool_results, timeout_finalize_requested,
                 soft_deadline_passed, proxy_requests, invocations,
                 sent_responses, service_answers, cached_tool_specs,
                 cached_tool_names, discovery, scans, executions>>

EngineStep ==
  \/ ChatWrapperStart
  \/ \E payload \in Payloads : ProxyReturns(payload)
  \/ \E raises \in BOOLEAN : ExecuteToolCall(raises)
  \/ FinishToolRound

EngineNext ==
  \/ EngineStep
  \/ SoftDeadlineElapses

(***************************************************************************)
(* Part II.  Data of the host page.                                        *)
(***************************************************************************)
\* server.config.workspace
Workspace == "me"

\* A session id is "<workspace>/<alias>"; the local draft id and null have no
\* workspace part (no '/').
SessionId(ws, alias) == [ws |-> ws, alias |-> alias]
LOCAL_DRAFT_SESSION_ID == SessionId("", -1)
NullId == SessionId("", -2)
Thrown == SessionId("", -3)          \* doSave rejected instead of returning
OwnedSession == SessionId(Workspace, 0)
ForeignSession == SessionId("other", 0)
\* The id am.create gives the n-th record it creates ("{uuid}" alias).
Uuid(n) == SessionId(Workspace, n)

\* sessionId.includes('/') && !sessionId.startsWith(workspace + '/')
\* (AgentPage.tsx:436 and :1849).
IsForeign(sessionId) == sessionId.ws # "" /\ sessionId.ws # Workspace

\* getSessionKey for a logged-in user (AgentPage.tsx:299-302).
getSessionKey(sessionId) ==
  IF sessionId # NullId THEN sessionId ELSE LOCAL_DRAFT_SESSION_ID

\* currentSessionKeyRef.current, refreshed by the effect at line 378.
currentSessionKey == getSessionKey(currentSessionId)

ChatMessage(role, text, t) == [role |-> role, text |-> text, turn |-> t]
UserMessage(t) == ChatMessage("user", "question", t)
ResponseMessage(t) == ChatMessage("assistant", "answer", t)
CancelNotice == ChatMessage("system", "*Request cancelled by user.*", 0)
\* `**Error**: ${error.message}` (line 2298)
ErrorResponse(t, errorText) == ChatMessage("system", errorText, t)

\* Messages of a session that was opened from its route.
LoadedHistory == << ChatMessage("user", "question", 0), ChatMessage("assistant", "answer", 0) >>

\* Error texts an execution attempt can be rejected with.
CeilingError == "Chat request timed out after 300s while waiting for chat-proxy"
SyntaxErrorText == "SyntaxError: invalid syntax"
KernelFailedText == "Kernel execution failed while sending message."
SaveThrewText == "Service not found: public/artifact-manager"
BridgeUnavailableText == "Chat proxy bridge unavailable"
KernelErrors == {KernelFailedText}
\* The errors an attempt of the one-turn specification can be rejected with.
AttemptErrors == {KernelFailedText, CeilingError, SyntaxErrorText, BridgeUnavailableText}

\* The regular expression of line 2260 (its letters in the case the texts
\* have).
isRetriableError_without_timeout(errorText) ==
  \E pattern \in {"SyntaxError", "expected 'except' or 'finally'", "invalid syntax",
                   "proxy bridge unavailable"} : Contains(errorText, pattern)
isRetriableError_always(errorText) == TRUE
isRetriableError(errorText) ==
  \E pattern \in {"SyntaxError", "expected 'except' or 'finally'", "invalid syntax",
                   "timed out", "bridge-timeout", "proxy bridge unavailable"} :
    Contains(errorText, pattern)

maxExecutionAttempts == 3

NoFile == [present |-> FALSE, content |-> << >>]
File(msgs) == [present |-> TRUE, content |-> msgs]

\* config.permissions of a record: the level of anyone ("*") and of
\* signed-in users ("@").
Permissions(anyone, signedIn) ==
  [who \in {"*", "@"} |-> IF who = "*" THEN anyone ELSE signedIn]
\* What am.create is given (lines 466-471) and what handleShareSession sets
\* (lines 792-797).
CreatedPermissions == Permissions("n", "n")
SharedPermissions == Permissions("r", "r+")

\* A session record of the artifact store.  A record of this workspace is
\* as am.create made it; a record of another workspace that the page can
\* load is one its owner shared.
Record(owner, name, committed) ==
  [owner |-> owner, staging |-> FALSE, name |-> name,
   staged |-> NoFile, committed |-> committed,
   permissions |-> IF owner = Workspace THEN CreatedPermissions
                   ELSE SharedPermissions]

DEFAULT_CHAT_TITLE == "New Chat"
GeneratedTitle == "generated title"

\* The progress reporter: a summary and a list of detail lines.
MAX_PROGRESS_TRACE_DETAILS == 30

Progress(summary, details) == [summary |-> summary, details |-> details]
currentProgress == Progress(agentProgress, agentProgressDetails)

\* array.slice(-n)
LastEntries(details, n) ==
  IF Len(details) <= n THEN details
  ELSE SubSeq(details, Len(details) - n + 1, Len(details))

\* updateAgentProgress (lines 1700-1710) applied to the progress p; a call
\* without detail is written with the detail "".
updateAgentProgress(p, summary, detail) ==
  Progress(summary,
           IF detail = "" THEN p.details
           ELSE LastEntries(Append(p.details, detail), MAX_PROGRESS_TRACE_DETAILS))

\* The reporter's state is followed in the specifications of Part IV; the
\* others leave it at rest (outputObserved is FALSE) and attach no trace.
SetProgress(p) ==
  /\ agentProgress' = IF outputObserved THEN p.summary ELSE agentProgress
  /\ agentProgressDetails' = IF outputObserved THEN p.details ELSE agentProgressDetails
  /\ UNCHANGED <<elapsedSeconds, outputObserved>>

\* Lines 1807-1813: a turn starts with an empty trace and a new
\* requestStartedAt.
StartProgress ==
  /\ agentProgress' = IF outputObserved THEN "Preparing request..." ELSE agentProgress
  /\ agentProgressDetails' = << >>
  /\ elapsedSeconds' = 0
  /\ UNCHANGED outputObserved

\* buildProgressTraceSnapshot (lines 1712-1722) of the progress p.
NoTrace == Progress("<undefined>", << >>)
ProgressTraceSnapshot(p) ==
  IF p.summary = "" /\ p.details = << >> THEN NoTrace ELSE p
AttachedTrace(p) == IF outputObserved THEN ProgressTraceSnapshot(p) ELSE NoTrace

\* safeResolve and safeReject (lines 1896-1910) on the progress p.
safeResolveProgress(p) == updateAgentProgress(p, "Response received.", "")
safeRejectProgress(p, errorText) == updateAgentProgress(p, "Request failed.", errorText)

IdleTurn ==
  [pc |-> "idle", conv |-> << >>, sessionId |-> NullId, activeSessionId |-> NullId,
   requestSessionKey |-> NullId, first_exchange |-> FALSE, title_pc |-> "none",
   attempt |-> 0, errors |-> << >>, outcome |-> "none", cancelled |-> FALSE,
   presave |-> "none", interrupts |-> 0, progressTrace |-> NoTrace]

Turns == 1..MaxSends
InFlight(t) == turn[t].pc \notin {"idle", "done"}

(***************************************************************************)
(* Part II.  Initial state: the page shows a new chat (the local draft), a  *)
(* session of the user's own, or a session shared by another workspace.    *)
(***************************************************************************)
PageInit ==
  /\ \E start \in {LOCAL_DRAFT_SESSION_ID, OwnedSession, ForeignSession} :
        /\ currentSessionId = start
        /\ messages = IF start = LOCAL_DRAFT_SESSION_ID THEN << >> ELSE LoadedHistory
        /\ records = IF start = LOCAL_DRAFT_SESSION_ID
                       THEN << >>
                       ELSE [id \in {start} |->
                               Record(start.ws, DEFAULT_CHAT_TITLE, File(LoadedHistory))]
  /\ isTyping = FALSE
  /\ typingSessionKey = NullId
  /\ turn = [t \in Turns |-> IdleTurn]
  /\ saveQueue = << >>
  /\ faults = 0

\* The output path at rest: nothing printed, the hook's buffer empty, the
\* attempt's promise pending, no progress reported.
HookQuiet ==
  /\ stdout = ""
  /\ stdoutBuffer = ""
  /\ outputs = << >>
  /\ resolved = << >>
  /\ streamed = ""
  /\ kernelStatus = "idle"
  /\ settlement = << >>
  /\ timeoutHandle = "none"
  /\ callbacks = << >>
  /\ agentProgress = ""
  /\ agentProgressDetails = << >>
  /\ elapsedSeconds = 0

KernelQuiet == HookQuiet /\ outputObserved = FALSE

\* The page before any message is sent (the state the engine specification
\* leaves the page in).
PageQuiet ==
  /\ currentSessionId = LOCAL_DRAFT_SESSION_ID
  /\ messages = << >>
  /\ records = << >>
  /\ isTyping = FALSE
  /\ typingSessionKey = NullId
  /\ turn = [t \in Turns |-> IdleTurn]
  /\ saveQueue = << >>
  /\ faults = 0

(***************************************************************************)
(* Part II.  saveSession: the queue and doSave.                            *)
(***************************************************************************)
\* saveSession(sessionId, msgs, agId, title): lines 615-617 chain doSave
\* behind the jobs already queued.
SaveJob(sessionId, msgs, title, kind, t) ==
  [sessionId |-> sessionId, msgs |-> msgs, title |-> title, kind |-> kind,
   turn |-> t, step |-> "queued", artifactId |-> NullId, createdNow |-> FALSE,
   name |-> IF title = "" THEN DEFAULT_CHAT_TITLE ELSE title]

Call(op, id, outcome) == [op |-> op, id |-> id, outcome |-> outcome]

\* What doSave's catch block gives back (lines 609-612).
SaveErrorResult_rethrown == Thrown
SaveErrorResult == NullId

\* Whether a commit that failed with 'Artifact must be in staging mode' is
\* followed by the repeated edit/upload/commit (lines 570-599: once).
MayRepeatAfterCommit_always(round) == TRUE
MayRepeatAfterCommit(round) == round # "commit_retry"

\* The ways a call of the write protocol can end.
Outcomes(op) ==
  CASE op = "edit" -> {"ok", "error"}
    [] op = "put_file" -> {"ok", "staging", "error"}
    [] op = "upload" -> {"ok", "http_error", "error"}
    [] op = "commit" -> {"ok", "staging", "error"}

Fault(outcome) == IF outcome = "ok" THEN 0 ELSE 1

\* The position of doSave in lines 522-599 when the write protocol starts.
WriteStart(job) ==
  [step |-> "edit", round |-> "first", rec |-> records[job.artifactId],
   log |-> << >>, faults |-> faults, result |-> NullId]

Logged(job, st, outcome) ==
  [st EXCEPT !.log = Append(@, Call(st.step, job.artifactId, outcome)),
             !.faults = @ + Fault(outcome)]

\* The exception reaches the catch of lines 609-612.
Caught(st) == [st EXCEPT !.step = "returned", !.result = SaveErrorResult]

\* am.edit(manifest, stage: true): lines 522-527, 545-550 and 576-581.
Edit_resets_permissions(job, st, outcome) ==
  IF outcome = "ok"
    THEN [st EXCEPT !.step = "put_file", !.rec.staging = TRUE, !.rec.name = job.name,
                    !.rec.permissions = CreatedPermissions]
    ELSE Caught(st)
Edit(job, st, outcome) ==
  IF outcome = "ok"
    THEN [st EXCEPT !.step = "put_file", !.rec.staging = TRUE, !.rec.name = job.name]
    ELSE Caught(st)

\* am.put_file: lines 533-557 and 583-587.  A record that left staging mode
\* makes it fail; the first time, edit and put_file are repeated.
PutFile(job, st, outcome) ==
  IF outcome = "ok" THEN [st EXCEPT !.step = "upload"]
  ELSE IF outcome = "staging"
    THEN LET left == [st EXCEPT !.rec.staging = FALSE, !.rec.staged = NoFile]
         IN IF st.round = "first"
              THEN [left EXCEPT !.step = "edit", !.round = "put_retry"]
              ELSE Caught(left)
  ELSE Caught(st)

\* fetch(putUrl, PUT): lines 559-563 and 589-593.  fetch resolves whatever the
\* HTTP status is and rejects only when the request cannot be made.
FetchPut(job, st, outcome) ==
  IF outcome = "ok"
    THEN [st EXCEPT !.step = "commit", !.rec.staged = File(job.msgs)]
  ELSE IF outcome = "http_error" THEN [st EXCEPT !.step = "commit"]
  ELSE Caught(st)

\* am.commit: lines 565-599, then lines 601-608.
Commit(job, st, outcome) ==
  IF outcome = "ok"
    THEN [st EXCEPT !.step = "returned", !.result = job.artifactId,
                    !.rec.staging = FALSE, !.rec.staged = NoFile,
                    !.rec.committed = IF st.rec.staged.present THEN st.rec.staged ELSE @]
  ELSE IF outcome = "staging"
    THEN LET left == [st EXCEPT !.rec.staging = FALSE, !.rec.staged = NoFile]
         IN IF MayRepeatAfterCommit(st.round)
              THEN [left EXCEPT !.step = "edit", !.round = "commit_retry"]
              ELSE Caught(left)
  ELSE Caught(st)

AfterCall(job, st, outcome) ==
  LET logged == Logged(job, st, outcome)
  IN CASE st.step = "edit" -> Edit(job, logged, outcome)
       [] st.step = "put_file" -> PutFile(job, logged, outcome)
       [] st.step = "upload" -> FetchPut(job, logged, outcome)
       [] st.step = "commit" -> Commit(job, logged, outcome)

\* Every way lines 522-612 can go from position st, the artifact manager and
\* the upload failing at most MaxFaults times in all.
RECURSIVE WriteRuns(_, _)
WriteRuns(job, st) ==
  IF st.step = "returned" THEN {st}
  ELSE UNION { WriteRuns(job, next) :
                 next \in { AfterCall(job, st, outcome) :
                            outcome \in { o \in Outcomes(st.step) :
                                            o = "ok" \/ st.faults < MaxFaults } } }

\* How the awaited save ended, as the turn sees it.
Presave(result, round) ==
  IF result # NullId THEN "saved"
  ELSE IF round = "commit_retry" THEN "failed_after_retry" ELSE "failed"

\* The continuation of handleSendMessage after `await saveSession(...)`,
\* lines 1853-1879, then the first execution attempt (lines 2245-2253).
ContinueAfterSave(tr, result, round) ==
  LET forkOrDraft == tr.activeSessionId = NullId \/ IsForeign(tr.activeSessionId)
      moved == forkOrDraft /\ result # NullId
      active == IF moved THEN result ELSE tr.activeSessionId
  IN  [tr EXCEPT !.pc = "executing",
                 !.activeSessionId = active,
                 !.requestSessionKey = IF moved THEN result ELSE @,
                 !.title_pc = IF tr.first_exchange /\ active # NullId
                                THEN "calling" ELSE "none",
                 !.attempt = 1,
                 !.presave = Presave(result, round)]

\* A catch block that records the error and leaves the run pending.
FailTurn_left_pending(tr, errorText) ==
  [tr EXCEPT !.errors = Append(@, errorText)]

\* The catch and finally blocks of handleSendMessage, lines 2293-2310.
FailTurn(tr, errorText) ==
  [tr EXCEPT !.pc = "done", !.outcome = "error", !.errors = Append(@, errorText)]

\* The chain of saves, lines 614-616: the next doSave is chained with
\* then(doSave, doSave) on a promise that never rejects, so it starts when
\* the one before it has settled, whichever way.
AfterSettled_without_catch(queue, result) ==
  IF result = Thrown THEN << >> ELSE Tail(queue)
AfterSettled(queue, result) == Tail(queue)

\* doSave returns or throws: the promise of saveSession settles (lines
\* 601-617); when a turn awaits it, handleSendMessage goes on in the same
\* step.
SaveReturns(job, result, round) ==
  LET t == job.turn
      awaited == job.kind = "pre"
      created == job.createdNow /\ result \notin {NullId, Thrown}
      next == ContinueAfterSave(turn[t], result, round)
      moved == next.requestSessionKey # turn[t].requestSessionKey
  IN
  /\ saveQueue' = AfterSettled(saveQueue, result)
  /\ IF awaited /\ result = Thrown
       THEN /\ turn' = [turn EXCEPT ![t] =
                          [FailTurn(@, SaveThrewText)
                             EXCEPT !.progressTrace = AttachedTrace(currentProgress)]]
            /\ SetProgress(updateAgentProgress(currentProgress, "Request failed.",
                                               SaveThrewText))
            /\ messages' = IF currentSessionKey = turn[t].requestSessionKey
                             THEN Append(messages, ErrorResponse(t, SaveThrewText))
                             ELSE messages
            /\ isTyping' = FALSE
            /\ typingSessionKey' = NullId
            /\ UNCHANGED currentSessionId
       ELSE /\ turn' = IF awaited THEN [turn EXCEPT ![t] = next] ELSE turn
            /\ currentSessionId' = IF created \/ (awaited /\ moved)
                                      THEN result ELSE currentSessionId
            /\ typingSessionKey' = IF awaited /\ moved
                                      THEN result ELSE typingSessionKey
            /\ UNCHANGED <<messages, isTyping, progressVars>>

pageState ==
  <<messages, isTyping, typingSessionKey, currentSessionId, turn, progressVars>>

Running == saveQueue # << >>

\* doSave from its start to the write protocol, lines 432-520: the fork
\* test, getService (outside the try block), then am.create of a staged
\* record owned by the workspace or, without a title, am.read of the
\* existing name (a failed read is ignored).
SaveBegin(outcome) ==
  /\ Running /\ Head(saveQueue).step = "queued"
  /\ outcome = "ok" \/ faults < MaxFaults
  /\ faults' = faults + Fault(outcome)
  /\ LET job == Head(saveQueue)
         artifactId == IF IsForeign(job.sessionId) THEN NullId ELSE job.sessionId
         id == Uuid(Cardinality(DOMAIN records) + 1)
     IN IF outcome = "throw"
          THEN /\ SaveReturns(job, Thrown, "first")
               /\ UNCHANGED records
        ELSE IF artifactId = NullId
          THEN IF outcome = "ok"
               THEN /\ records' = [r \in DOMAIN records \cup {id} |->
                                     IF r = id
                                       THEN [Record(Workspace, job.name, NoFile)
                                               EXCEPT !.staging = TRUE]
                                       ELSE records[r]]
                    /\ saveQueue' = << [job EXCEPT !.step = "write", !.artifactId = id,
                                                   !.createdNow = TRUE] >>
                                    \o Tail(saveQueue)
                    /\ UNCHANGED pageState
               ELSE /\ UNCHANGED records
                    /\ SaveReturns(job, SaveErrorResult, "first")
        ELSE IF job.title = ""
          THEN /\ saveQueue' = << [job EXCEPT !.step = "write", !.artifactId = artifactId,
                                              !.name = IF outcome = "ok"
                                                         THEN records[artifactId].name
                                                         ELSE @] >>
                               \o Tail(saveQueue)
               /\ UNCHANGED <<records, pageState>>
          ELSE /\ outcome = "ok"
               /\ saveQueue' = << [job EXCEPT !.step = "write", !.artifactId = artifactId] >>
                               \o Tail(saveQueue)
               /\ UNCHANGED <<records, pageState>>
  /\ UNCHANGED <<engineVars, bridgeVars, kernelVars>>

\* The write protocol of doSave, lines 522-612, and its return.
SaveWrite ==
  /\ Running /\ Head(saveQueue).step = "write"
  /\ LET job == Head(saveQueue)
     IN \E start \in {WriteStart(job)} : \E run \in WriteRuns(job, start) :
          /\ records' = [records EXCEPT ![job.artifactId] = run.rec]
          /\ faults' = run.faults
          /\ SaveReturns(job, run.result, run.round)
  /\ UNCHANGED <<engineVars, bridgeVars, kernelVars>>

SaveStep ==
  \/ \E outcome \in {"ok", "throw", "error"} : SaveBegin(outcome)
  \/ SaveWrite

\* handleShareSession, lines 784-812: am.edit with the share permissions on
\* the current session.  The artifact manager rejects the call for an id
\* that names no record and for a record of another workspace; a rejected
\* or failed call changes nothing in the store.
MayEdit(sessionId) ==
  sessionId \in DOMAIN records /\ records[sessionId].owner = Workspace
handleShareSession(outcome) ==
  /\ currentSessionId # NullId
  /\ records' = IF outcome = "ok" /\ MayEdit(currentSessionId)
                  THEN [records EXCEPT ![currentSessionId].permissions =
                                          SharedPermissions]
                  ELSE records
  /\ UNCHANGED <<pageState, saveQueue, faults>>
  /\ UNCHANGED <<engineVars, bridgeVars, kernelVars>>

\* handleNewChat, lines 778-782: the page shows the empty local draft.
handleNewChat ==
  /\ messages' = << >>
  /\ currentSessionId' = LOCAL_DRAFT_SESSION_ID
  /\ UNCHANGED <<isTyping, typingSessionKey, turn, saveQueue, records, faults>>
  /\ UNCHANGED <<engineVars, bridgeVars, kernelVars, progressVars>>

\* The messages fetchSessionData finds for a record, lines 680-713: the
\* committed file, else the staged one, else none.
StoredMessages(rec) ==
  IF rec.committed.present THEN rec.committed.content
  ELSE IF rec.staged.present THEN rec.staged.content
  ELSE << >>

\* loadSession, lines 742-753, and for a stored session the load that
\* follows the navigation (fetchSessionData, lines 626-739).
loadSession(sessionId) ==
  /\ sessionId \in DOMAIN records
  /\ sessionId # currentSessionId
  /\ messages' = StoredMessages(records[sessionId])
  /\ currentSessionId' = sessionId
  /\ UNCHANGED <<isTyping, typingSessionKey, turn, saveQueue, records, faults>>
  /\ UNCHANGED <<engineVars, bridgeVars, kernelVars, progressVars>>

(***************************************************************************)
(* Part II.  handleSendMessage, handleCancel, generateTitle.               *)
(***************************************************************************)
Enqueue(job) == saveQueue' = Append(saveQueue, job)

\* The Send button is disabled while isTyping (line 2889); the Enter key of
\* the textarea calls handleSendMessage directly (lines 2317-2322).
MaySend(via) == via = "enter" \/ ~isTyping

\* handleSendMessage up to its first await, lines 1791-1873.
Send(t, via) ==
  /\ turn[t].pc = "idle"
  /\ \A u \in Turns : u < t => turn[u].pc # "idle"
  /\ MaySend(via)
  /\ LET requestSessionKey == getSessionKey(currentSessionId)
         conversationWithUser == Append(messages, UserMessage(t))
         activeSessionId == IF currentSessionId = LOCAL_DRAFT_SESSION_ID
                              THEN NullId ELSE currentSessionId
     IN /\ messages' = conversationWithUser
        /\ isTyping' = TRUE
        /\ typingSessionKey' = requestSessionKey
        /\ turn' = [turn EXCEPT ![t] =
                      [IdleTurn EXCEPT !.pc = "awaitSave",
                                       !.conv = conversationWithUser,
                                       !.sessionId = activeSessionId,
                                       !.activeSessionId = activeSessionId,
                                       !.requestSessionKey = requestSessionKey,
                                       !.first_exchange = Len(messages) < 2]]
        /\ Enqueue(SaveJob(activeSessionId, conversationWithUser, "", "pre", t))
  /\ StartProgress
  /\ UNCHANGED <<currentSessionId, records, faults>>
  /\ UNCHANGED <<engineVars, bridgeVars, kernelVars>>

\* handleCancel, lines 1650-1662.  The Cancel button is rendered while
\* isTyping (line 2878).
handleCancel ==
  /\ isTyping
  /\ isTyping' = FALSE
  /\ typingSessionKey' = NullId
  /\ messages' = Append(messages, CancelNotice)
  /\ turn' = [t \in Turns |->
                IF InFlight(t) THEN [turn[t] EXCEPT !.cancelled = TRUE] ELSE turn[t]]
  /\ UNCHANGED <<currentSessionId, saveQueue, records, faults>>
  /\ UNCHANGED <<engineVars, bridgeVars, kernelVars, progressVars>>

\* The attempt's promise is resolved by a response-marker line (line 2208);
\* then lines 2276-2291 and the finally block.
Respond(t, pythonResponse) ==
  /\ turn[t].pc = "executing"
  /\ LET tr == turn[t]
         finalConversation ==
           Append(tr.conv, ChatMessage("assistant", pythonResponse, t))
     IN /\ saveQueue' = IF tr.activeSessionId # NullId
                          THEN Append(saveQueue,
                                 SaveJob(tr.activeSessionId, finalConversation, "", "final", t))
                          ELSE saveQueue
        /\ messages' = IF currentSessionKey = tr.requestSessionKey
                         THEN finalConversation ELSE messages
        /\ turn' = [turn EXCEPT ![t].pc = "done", ![t].outcome = "answer",
                                 ![t].progressTrace =
                                    AttachedTrace(safeResolveProgress(currentProgress))]
  /\ SetProgress(safeResolveProgress(currentProgress))
  /\ isTyping' = FALSE
  /\ typingSessionKey' = NullId
  /\ UNCHANGED <<currentSessionId, records, faults>>
  /\ UNCHANGED <<engineVars, bridgeVars, kernelVars>>

\* The response of the attempts whose engine run is not followed step by
\* step: the model's answer.
ExecResponse(t) == Respond(t, "answer")

\* The attempt's promise is rejected: by error output or the Error status
\* (lines 2201, 2232) or by the ceiling timer (lines 1912-1918); then the
\* catch of the attempt loop, lines 2256-2274, and, when the loop gives up,
\* the catch and finally blocks of lines 2293-2310.
ExecError(t, errorText) ==
  /\ turn[t].pc = "executing"
  /\ LET tr == turn[t]
         seen == Append(tr.errors, errorText)
         caught == updateAgentProgress(safeRejectProgress(currentProgress, errorText),
                                       "Execution error encountered.", errorText)
     IN IF isRetriableError(errorText) /\ tr.attempt < maxExecutionAttempts
          THEN /\ turn' = [turn EXCEPT ![t].pc = "backoff", ![t].errors = seen,
                                       ![t].interrupts = @ + 1]
               /\ SetProgress(caught)
               /\ UNCHANGED <<messages, isTyping, typingSessionKey>>
          ELSE /\ turn' = [turn EXCEPT ![t].pc = "done", ![t].outcome = "error",
                                       ![t].errors = seen,
                                       ![t].progressTrace = AttachedTrace(caught)]
               /\ SetProgress(updateAgentProgress(caught, "Request failed.", errorText))
               /\ messages' = IF currentSessionKey = tr.requestSessionKey
                                THEN Append(messages, ErrorResponse(t, errorText))
                                ELSE messages
               /\ isTyping' = FALSE
               /\ typingSessionKey' = NullId
  /\ UNCHANGED <<currentSessionId, saveQueue, records, faults>>
  /\ UNCHANGED <<engineVars, bridgeVars, kernelVars>>

\* The 300 ms pause is over: the next attempt runs the engine again
\* (lines 2268, 2248-2253).
RetryAttempt(t) ==
  /\ turn[t].pc = "backoff"
  /\ turn' = [turn EXCEPT ![t].pc = "executing", ![t].attempt = @ + 1]
  /\ SetProgress(updateAgentProgress(currentProgress, "Retrying after kernel error...",
                    "Execution attempt " \o ToString(turn[t].attempt + 1) \o "/"
                      \o ToString(maxExecutionAttempts)))
  /\ UNCHANGED <<messages, isTyping, typingSessionKey, currentSessionId, saveQueue,
                 records, faults>>
  /\ UNCHANGED <<engineVars, bridgeVars, kernelVars>>

\* The progress heartbeat of lines 1813-1820 ticks: the interval runs from
\* the start of the turn to its finally block (line 2308).
HeartbeatSeconds == 10
Heartbeat ==
  /\ \E t \in Turns : InFlight(t)
  /\ elapsedSeconds < MaxHeartbeats * HeartbeatSeconds
  /\ LET elapsed == elapsedSeconds + HeartbeatSeconds
         next == updateAgentProgress(currentProgress,
                   "Still working... (" \o ToString(elapsed) \o "s)",
                   "Waiting for model/proxy response for " \o ToString(elapsed) \o "s")
     IN /\ elapsedSeconds' = elapsed
        /\ agentProgress' = next.summary
        /\ agentProgressDetails' = next.details
  /\ UNCHANGED outputObserved
  /\ UNCHANGED <<pageVars, engineVars, bridgeVars, kernelVars>>

\* generateTitle, lines 1761-1789: its completion call returns; a title is
\* saved with the message list the call was started with.
TitleReturns(t, hasTitle) ==
  /\ turn[t].title_pc = "calling"
  /\ turn' = [turn EXCEPT ![t].title_pc = "done"]
  /\ saveQueue' = IF hasTitle
                    THEN Append(saveQueue,
                           SaveJob(turn[t].activeSessionId, turn[t].conv,
                                   GeneratedTitle, "title", t))
                    ELSE saveQueue
  /\ UNCHANGED <<messages, isTyping, typingSessionKey, currentSessionId,
                 records, faults>>
  /\ UNCHANGED <<engineVars, bridgeVars, kernelVars, progressVars>>

TurnStep ==
  \/ \E t \in Turns : ExecResponse(t)
  \/ \E t \in Turns, errorText \in KernelErrors \cup {CeilingError} : ExecError(t, errorText)
  \/ \E t \in Turns : RetryAttempt(t)
  \/ \E t \in Turns, hasTitle \in BOOLEAN : TitleReturns(t, hasTitle)

UserStep ==
  \/ \E t \in Turns, via \in {"button", "enter"} : Send(t, via)
  \/ handleCancel

PageNext ==
  \/ UserStep
  \/ SaveStep
  \/ TurnStep

(***************************************************************************)
(* Part III.  Data of the bridge window.hypha_chat_proxy.                  *)
(***************************************************************************)
CHAT_PROXY_REQUEST_TIMEOUT_MS == 300000
CHAT_PROXY_RESOLVE_TIMEOUT_MS == 15000
CHAT_PROXY_COMPLETION_TIMEOUT_MS == 300000

\* What server.getService finds for a service id: a service with
\* chat_completion, nothing, a service without chat_completion, or no answer
\* within the resolve timeout.
ServiceKinds == {"ok", "missing", "no_method", "slow"}

\* uniqueNonEmptyValues, lines 108-118.
uniqueNonEmptyValues_with_duplicates(values) == values
RECURSIVE uniqueNonEmptyValues(_)
uniqueNonEmptyValues(values) ==
  IF values = << >> THEN << >>
  ELSE LET before == uniqueNonEmptyValues(SubSeq(values, 1, Len(values) - 1))
           value == values[Len(values)]
       IN IF value = "" \/ \E i \in DOMAIN before : before[i] = value
            THEN before ELSE Append(before, value)

\* The candidate order of one resolution, lines 1458-1464.
PrioritizedServiceIds(active, preferAlternateService) ==
  LET preferredServiceIds == uniqueNonEmptyValues(<< active >> \o CHAT_PROXY_SERVICE_IDS)
  IN IF preferAlternateService /\ Len(preferredServiceIds) > 1
       THEN Tail(preferredServiceIds) \o << preferredServiceIds[1] >>
       ELSE preferredServiceIds

\* The rejection of withTimeout, line 1425.
TimeoutError(timeoutMs, stage) ==
  "Timeout after " \o ToString(timeoutMs \div 1000) \o "s during " \o stage

ResolutionStage(serviceId, attempt) ==      \* line 1471
  "service resolution for " \o serviceId \o " (attempt " \o ToString(attempt) \o ")"
CompletionStage(serviceId, attempt) ==      \* line 1524
  "chat_completion response attempt " \o ToString(attempt) \o " from " \o serviceId

\* The error one lookup ends with, lines 1468-1475.
LookupError(kind, serviceId, attempt) ==
  CASE kind = "slow" ->
         TimeoutError(CHAT_PROXY_RESOLVE_TIMEOUT_MS, ResolutionStage(serviceId, attempt))
    [] kind = "missing" -> "Service not found: " \o serviceId
    [] kind = "no_method" ->
         "Proxy service found but has no chat_completion method: " \o serviceId

\* The test of /timed out|timeout/i (lines 1443, 1447, 1537), on the
\* spellings that occur.
TimeoutPhrase(text) ==
  \E phrase \in {"timed out", "Timed out", "timeout", "Timeout"} :
    \E i \in 1..(Len(text) + 1 - Len(phrase)) :
      SubSeq(text, i, i + Len(phrase) - 1) = phrase

\* A payload of chat_completion: an object with its `error` and `message`
\* members and whether it has `choices`.
Payload(error, message, choices) ==
  [error |-> error, message |-> message, choices |-> choices]
CompletionPayload == Payload(NoValue, NoValue, TRUE)
ErrorStringPayload == Payload("Rate limit exceeded", NoValue, FALSE)
TimeoutPayload == Payload("Request timed out", NoValue, FALSE)
MessageTimeoutPayload == Payload(NoValue, "upstream timeout", FALSE)
ServicePayloads ==
  {CompletionPayload, ErrorStringPayload, TimeoutPayload, MessageTimeoutPayload}

\* isTimeoutPayload, lines 1440-1450, on object payloads.
isTimeoutPayload(payload) ==
  LET maybeError == IF payload.error # NoValue THEN payload.error ELSE payload.message
  IN maybeError # NoValue /\ TimeoutPhrase(maybeError)

\* JSON.stringify({ error: errorMsg }), line 1563.
ErrorResult(errorMsg) == Payload(errorMsg, NoValue, FALSE)

\* How one call of chat_completion ends: with a payload, with a rejection of
\* the service, or not within the completion timeout.
CompletionOutcomes ==
  [kind : {"payload"}, payload : ServicePayloads]
    \cup { [kind |-> "raise", payload |-> ErrorResult("Connection closed")],
           [kind |-> "stall", payload |-> ErrorResult("")] }

(***************************************************************************)
(* Part III.  hypha_chat_proxy and resolveChatProxyService.                *)
(***************************************************************************)
BridgeInit ==
  /\ services \in [CandidateIds -> ServiceKinds]
  /\ bridge_pc = "idle"
  /\ bridge_calls = 0
  /\ cachedChatProxyServiceId = NoValue
  /\ activeChatProxyServiceId = CHAT_PROXY_SERVICE_ID
  /\ proxyForAttempt = NoValue
  /\ completion_attempt = 0
  /\ resolve_attempt = 0
  /\ resolve_idx = 0
  /\ prioritizedServiceIds = << >>
  /\ lastError = NoValue
  /\ lookups = << >>
  /\ tried = << >>
  /\ bridge_result = Payload(NoValue, NoValue, FALSE)

\* The bridge is not called.
BridgeQuiet ==
  /\ services = [s \in CandidateIds |-> "ok"]
  /\ bridge_pc = "idle"
  /\ bridge_calls = 0
  /\ cachedChatProxyServiceId = NoValue
  /\ activeChatProxyServiceId = CHAT_PROXY_SERVICE_ID
  /\ proxyForAttempt = NoValue
  /\ completion_attempt = 0
  /\ resolve_attempt = 0
  /\ resolve_idx = 0
  /\ prioritizedServiceIds = << >>
  /\ lastError = NoValue
  /\ lookups = << >>
  /\ tried = << >>
  /\ bridge_result = Payload(NoValue, NoValue, FALSE)

\* resolveChatProxyService up to its first lookup, lines 1452-1466, when it
\* does not return the cached service.
StartResolution(preferAlternateService) ==
  /\ bridge_pc' = "resolving"
  /\ prioritizedServiceIds' =
       PrioritizedServiceIds(activeChatProxyServiceId, preferAlternateService)
  /\ resolve_attempt' = 1
  /\ resolve_idx' = 1
  /\ lastError' = NoValue
  /\ lookups' = << >>

\* The bridge returns to the engine: line 1558 or the catch of line 1559.
BridgeReturns(payload) ==
  /\ bridge_pc' = "returned"
  /\ bridge_result' = payload

\* The test of line 1453: the cached service is returned without a lookup.
MayReturnCached_never(forceRefresh) == FALSE
MayReturnCached(forceRefresh) ==
  ~forceRefresh /\ cachedChatProxyServiceId # NoValue

\* window.hypha_chat_proxy is called (by generateTitle, line 1776, or by
\* kernel code through js): lines 1411-1511.
BridgeCalled ==
  /\ bridge_pc \in {"idle", "returned"}
  /\ bridge_calls < MaxCalls
  /\ bridge_calls' = bridge_calls + 1
  /\ completion_attempt' = 1
  /\ tried' = << >>
  /\ IF MayReturnCached(FALSE)
       THEN /\ bridge_pc' = "completing"
            /\ proxyForAttempt' = cachedChatProxyServiceId
            /\ UNCHANGED <<prioritizedServiceIds, resolve_attempt, resolve_idx, lastError,
                           lookups>>
       ELSE /\ StartResolution(FALSE)
            /\ UNCHANGED proxyForAttempt
  /\ UNCHANGED <<services, cachedChatProxyServiceId, activeChatProxyServiceId,
                 bridge_result>>
  /\ UNCHANGED <<engineVars, pageVars, kernelVars, progressVars>>

\* A completion attempt has failed, lines 1527-1546: the pause, then the
\* next attempt with a forced, alternate-preferring resolution, or the end of
\* the loop and the error result (lines 1549-1563).
AttemptFailed(errorMsg) ==
  IF completion_attempt < 3
    THEN /\ completion_attempt' = completion_attempt + 1
         /\ StartResolution(TRUE)
         /\ UNCHANGED bridge_result
    ELSE /\ BridgeReturns(ErrorResult(errorMsg))
         /\ UNCHANGED <<completion_attempt, prioritizedServiceIds, resolve_attempt,
                        resolve_idx, lastError, lookups>>

\* One lookup of resolveChatProxyService, lines 1466-1489.
Lookup ==
  /\ bridge_pc = "resolving"
  /\ LET serviceId == prioritizedServiceIds[resolve_idx]
         kind == services[serviceId]
         resolveError == LookupError(kind, serviceId, resolve_attempt)
         restart == /\ kind # "ok" /\ resolve_idx = Len(prioritizedServiceIds)
                    /\ resolve_attempt = 3
                    /\ completion_attempt > 1 /\ completion_attempt < 3
     IN /\ lookups' = IF restart THEN << >>
                      ELSE Append(lookups, [service |-> serviceId, ok |-> kind = "ok"])
        /\ IF kind = "ok"
             THEN /\ cachedChatProxyServiceId' = serviceId
                  /\ activeChatProxyServiceId' = serviceId
                  /\ proxyForAttempt' = serviceId
                  /\ bridge_pc' = "completing"
                  /\ UNCHANGED <<completion_attempt, prioritizedServiceIds, resolve_attempt,
                                 resolve_idx, lastError, bridge_result>>
           ELSE IF resolve_idx < Len(prioritizedServiceIds)
             THEN /\ resolve_idx' = resolve_idx + 1
                  /\ lastError' = resolveError
                  /\ UNCHANGED <<cachedChatProxyServiceId, activeChatProxyServiceId,
                                 proxyForAttempt, bridge_pc, completion_attempt,
                                 prioritizedServiceIds, resolve_attempt, bridge_result>>
           ELSE IF resolve_attempt < 3
             THEN /\ resolve_attempt' = resolve_attempt + 1
                  /\ resolve_idx' = 1
                  /\ lastError' = resolveError
                  /\ UNCHANGED <<cachedChatProxyServiceId, activeChatProxyServiceId,
                                 proxyForAttempt, bridge_pc, completion_attempt,
                                 prioritizedServiceIds, bridge_result>>
           ELSE \* line 1489: the resolution throws its last error
                /\ UNCHANGED <<cachedChatProxyServiceId, activeChatProxyServiceId,
                               proxyForAttempt>>
                /\ IF completion_attempt = 1
                     THEN \* the first resolution, line 1501: the outer catch
                          /\ BridgeReturns(ErrorResult(resolveError))
                          /\ lastError' = resolveError
                          /\ UNCHANGED <<completion_attempt, prioritizedServiceIds,
                                         resolve_attempt, resolve_idx>>
                     ELSE \* inside the attempt loop, line 1520: its catch
                          /\ IF completion_attempt < 3
                               THEN /\ completion_attempt' = completion_attempt + 1
                                    /\ bridge_pc' = "resolving"
                                    /\ prioritizedServiceIds' =
                                         PrioritizedServiceIds(activeChatProxyServiceId, TRUE)
                                    /\ resolve_attempt' = 1
                                    /\ resolve_idx' = 1
                                    /\ lastError' = NoValue
                                    /\ UNCHANGED bridge_result
                               ELSE /\ BridgeReturns(ErrorResult(resolveError))
                                    /\ lastError' = resolveError
                                    /\ UNCHANGED <<completion_attempt, prioritizedServiceIds,
                                                   resolve_attempt, resolve_idx>>
  /\ UNCHANGED <<services, bridge_calls, tried>>
  /\ UNCHANGED <<engineVars, pageVars, kernelVars, progressVars>>

\* chat_completion of the attempt settles or its timeout fires: lines
\* 1521-1546, then lines 1549-1563 when the loop is left.
CompletionSettles(outcome) ==
  /\ bridge_pc = "completing"
  /\ LET result == outcome.payload
         stage == CompletionStage(activeChatProxyServiceId, completion_attempt)
     IN IF outcome.kind = "payload"
          THEN IF isTimeoutPayload(result)
                 THEN /\ tried' = Append(tried, proxyForAttempt)
                      /\ AttemptFailed("Request timed out.")
                 ELSE /\ BridgeReturns(result)
                      /\ tried' = IF result.choices THEN tried
                                                    ELSE Append(tried, proxyForAttempt)
                      /\ UNCHANGED <<completion_attempt, prioritizedServiceIds,
                                     resolve_attempt, resolve_idx, lastError, lookups>>
          ELSE /\ tried' = Append(tried, proxyForAttempt)
               /\ AttemptFailed(IF outcome.kind = "stall"
                                  THEN TimeoutError(CHAT_PROXY_COMPLETION_TIMEOUT_MS, stage)
                                  ELSE result.error)
  /\ UNCHANGED <<services, bridge_calls, cachedChatProxyServiceId,
                 activeChatProxyServiceId, proxyForAttempt>>
  /\ UNCHANGED <<engineVars, pageVars, kernelVars, progressVars>>

\* A service that did not answer within the resolve timeout answers from
\* now on (server.getService, line 1469).
ServiceAnswers(serviceId) ==
  /\ services[serviceId] = "slow"
  /\ services' = [services EXCEPT ![serviceId] = "ok"]
  /\ UNCHANGED <<bridge_pc, bridge_calls, cachedChatProxyServiceId,
                 activeChatProxyServiceId, proxyForAttempt, completion_attempt,
                 resolve_attempt, resolve_idx, prioritizedServiceIds, lastError,
                 lookups, tried, bridge_result>>
  /\ UNCHANGED <<engineVars, pageVars, kernelVars, progressVars>>

BridgeNext ==
  \/ BridgeCalled
  \/ Lookup
  \/ \E serviceId \in CandidateIds : ServiceAnswers(serviceId)
  \/ \E outcome \in CompletionOutcomes : CompletionSettles(outcome)

(***************************************************************************)
(* Part IV.  The kernel hook: stream events, line buffering, onOutput.     *)
(***************************************************************************)
\* buffer.split('\n'), lines 313-317 of the hook: the complete lines and the
\* remainder after the last line break.
RECURSIVE SplitLines(_)
SplitLines(buffer) ==
  LET i == IndexOf(buffer, "\n")
  IN  IF i = 0 THEN [lines |-> << >>, remainder |-> buffer]
      ELSE LET rest == SplitLines(SubSeq(buffer, i + 1, Len(buffer)))
           IN  [lines |-> << SubSeq(buffer, 1, i - 1) >> \o rest.lines,
                remainder |-> rest.remainder]

\* `if (line.length > 0)` of lines 319-320 and 226.
RECURSIVE NonEmpty(_)
NonEmpty(lines) ==
  IF lines = << >> THEN << >>
  ELSE IF lines[1] = "" THEN NonEmpty(Tail(lines))
  ELSE << lines[1] >> \o NonEmpty(Tail(lines))

\* The remainder processBuffer keeps (line 317 and line 331).
KeptRemainder(split) == split.remainder

\* parseProgressFromStdout, lines 1724-1759, for one line of content.
parseProgressFromStdout(p, rawContent) ==
  LET line == Trim(rawContent)
  IN  IF line = "" THEN p
      ELSE IF Contains(line, RESPONSE_MARKER)
        THEN updateAgentProgress(p, "Finalizing response...", "Final response received.")
      ELSE IF HasPrefix(line, "Discovered ")
        THEN updateAgentProgress(p, "Discovering available tools...", line)
      ELSE IF HasPrefix(line, "Calling tool:")
        THEN updateAgentProgress(p, "Running a tool call...", line)
      ELSE IF Contains(line, "DEBUG: Calling hypha_chat_proxy")
        THEN updateAgentProgress(p, "Contacting chat proxy service...", line)
      ELSE IF Contains(line, "DEBUG: hypha_chat_proxy returned:")
        THEN updateAgentProgress(p, "Processing model response...", line)
      ELSE IF Contains(line, "bridge-error")
        THEN updateAgentProgress(p, "Chat proxy bridge reported an error.", line)
      ELSE IF HasPrefix(line, "DEBUG: Exception in hypha_chat_proxy bridge:")
        THEN updateAgentProgress(p, "Chat proxy bridge exception.", line)
      ELSE p

\* The onOutput callback of runChatExecution for a stdout content, lines
\* 2203-2221, on the host state h = [progress, resolved].
onOutput(h, content) ==
  LET parsed == parseProgressFromStdout(h.progress, content)
  IN  IF Contains(content, RESPONSE_MARKER) /\ h.resolved = << >>
        THEN [progress |-> safeResolveProgress(parsed),
              resolved |-> << ExtractResponse(content) >>]
        ELSE [progress |-> parsed, resolved |-> h.resolved]

RECURSIVE onOutputs(_, _)
onOutputs(h, contents) ==
  IF contents = << >> THEN h
  ELSE onOutputs(onOutput(h, contents[1]), Tail(contents))

Deliver(contents) ==
  LET h == onOutputs([progress |-> currentProgress, resolved |-> resolved], contents)
  IN  /\ outputs' = outputs \o contents
      /\ resolved' = h.resolved
      /\ SetProgress(h.progress)
      /\ UNCHANGED attemptVars

\* handleStreamEvent and processBuffer (lines 98-111 and 305-333 of the
\* hook): a stream event carries the next n characters the program wrote.
StreamEvent(n) ==
  /\ n \in 1..Len(stdout)
  /\ LET text == SubSeq(stdout, 1, n)
         split == SplitLines(stdoutBuffer \o text)
     IN  /\ stdout' = SubSeq(stdout, n + 1, Len(stdout))
         /\ streamed' = streamed \o text
         /\ stdoutBuffer' = KeptRemainder(split)
         /\ Deliver(NonEmpty(split.lines))
  /\ UNCHANGED kernelStatus
  /\ UNCHANGED <<engineVars, pageVars, bridgeVars>>

\* The stream of the execution ends: flushBuffers (lines 218-242) and
\* setKernelStatus('idle') (lines 403-404).
ExecutionEnds ==
  /\ kernelStatus = "busy"
  /\ stdout = ""
  /\ kernelStatus' = "idle"
  /\ stdoutBuffer' = ""
  /\ Deliver(NonEmpty(<< stdoutBuffer >>))
  /\ UNCHANGED <<stdout, streamed>>
  /\ UNCHANGED <<engineVars, pageVars, bridgeVars>>

\* One execution attempt, runChatExecution (lines 1884-2242): the state of
\* its promise, its ceiling timer and the progress it reports.
Attempt(settled, handle, progress) ==
  [settlement |-> settled, timeoutHandle |-> handle, progress |-> progress]
Resolved(value) == [kind |-> "resolved", value |-> value]
Rejected(message) == [kind |-> "rejected", value |-> message]

\* cleanup, lines 1889-1894.
cleanup(handle) == IF handle = "armed" THEN "cleared" ELSE handle

\* safeResolve, lines 1896-1902.
safeResolve(a, value) ==
  IF a.settlement # << >> THEN a
  ELSE Attempt(<< Resolved(value) >>, cleanup(a.timeoutHandle),
               safeResolveProgress(a.progress))

\* safeReject, lines 1904-1910.
safeReject_unguarded(a, message) ==
  Attempt(<< Rejected(message) >>, cleanup(a.timeoutHandle),
          safeRejectProgress(a.progress, message))
safeReject(a, message) ==
  IF a.settlement # << >> THEN a
  ELSE Attempt(<< Rejected(message) >>, cleanup(a.timeoutHandle),
               safeRejectProgress(a.progress, message))

\* What the kernel hands to the callbacks of executeCode.
OutputLog(type, content) == [type |-> type, content |-> content]
StatusEvent(status) == [type |-> "status", content |-> status]
CeilingEvent == [type |-> "ceiling", content |-> ""]

\* callbacks.onOutput, lines 2200-2228.
attemptOnOutput(a, log) ==
  IF log.type = "error"
    THEN safeReject(a, IF log.content = "" THEN "Kernel execution error"
                       ELSE log.content)
  ELSE IF log.type = "stdout"
    THEN LET parsed == [a EXCEPT !.progress =
                          parseProgressFromStdout(a.progress, log.content)]
         IN  IF Contains(log.content, RESPONSE_MARKER)
               THEN safeResolve(parsed, ExtractResponse(log.content))
               ELSE parsed
  ELSE IF log.type = "stderr" /\ Trim(log.content) # ""
    THEN [a EXCEPT !.progress =
            updateAgentProgress(a.progress, "Agent emitted runtime logs...",
                                Trim(log.content))]
  ELSE a

\* callbacks.onStatus, lines 2229-2236.
attemptOnStatus(a, status) ==
  IF status = "Busy"
    THEN [a EXCEPT !.progress =
            updateAgentProgress(a.progress, "Running in Python kernel...", "")]
  ELSE IF status = "Error"
    THEN safeReject(a, KernelFailedText)
  ELSE a

CurrentAttempt == Attempt(settlement, timeoutHandle, currentProgress)

SetAttempt(a, event) ==
  /\ settlement' = a.settlement
  /\ timeoutHandle' = a.timeoutHandle
  /\ callbacks' = Append(callbacks, event)
  /\ SetProgress(a.progress)
  /\ UNCHANGED <<stdout, stdoutBuffer, outputs, resolved, streamed, kernelStatus>>
  /\ UNCHANGED <<engineVars, pageVars, bridgeVars>>

\* The head of runChatExecution, lines 1885-1918: the promise is pending
\* and the ceiling timer is set.
AttemptStarts ==
  /\ timeoutHandle = "none"
  /\ settlement' = << >>
  /\ timeoutHandle' = "armed"
  /\ UNCHANGED <<callbacks, stdout, stdoutBuffer, outputs, resolved, streamed,
                 kernelStatus, progressVars>>
  /\ UNCHANGED <<engineVars, pageVars, bridgeVars>>

\* The kernel hands an output or a status to the callbacks; it goes on doing
\* so after the promise has settled.
OutputArrives(log) ==
  /\ timeoutHandle # "none"
  /\ Len(callbacks) < MaxEvents
  /\ SetAttempt(attemptOnOutput(CurrentAttempt, log), log)

StatusArrives(status) ==
  /\ timeoutHandle # "none"
  /\ Len(callbacks) < MaxEvents
  /\ SetAttempt(attemptOnStatus(CurrentAttempt, status), StatusEvent(status))

\* The timer of lines 1912-1918 fires; a timer that clearTimeout has
\* cancelled does not.
CeilingTimerFires ==
  /\ timeoutHandle = "armed"
  /\ Len(callbacks) < MaxEvents
  /\ SetAttempt(safeReject(CurrentAttempt, CeilingError), CeilingEvent)

\* What the kernel may hand to onOutput.
AttemptLogs ==
  { OutputLog("stdout", MarkerLine("answer")),
    OutputLog("stdout", MarkerLine("second answer")),
    OutputLog("stdout", "Calling tool: search"),
    OutputLog("error", "Traceback: boom"),
    OutputLog("error", ""),
    OutputLog("stderr", "warning") }

AttemptNext ==
  \/ AttemptStarts
  \/ \E log \in AttemptLogs : OutputArrives(log)
  \/ \E status \in {"Busy", "Error"} : StatusArrives(status)
  \/ CeilingTimerFires

\* The sizes of the stream events: up to MaxChunk characters, or all the
\* program has written.
ChunkSizes == (1..MaxChunk) \cup {Len(stdout)}

\* What programs run by the hook write: the lines of an engine run whose
\* first completion is plain content, alone or followed by text without
\* a line break, and text with blank lines.
ContentWithMarker == "the line " \o RESPONSE_MARKER \o "{} ends a run"
KernelContents == {"answer", "", NoValue, ContentWithMarker}
RunOutput(content) ==
  PrintedText(StartLines(InitialHistory,
                         _discover_tools(AgentSandbox, << >>, << >>))
              \o ReturnLines(_python_fallback_chat_completion(
                                << Completion(content, << >>) >>),
                             TRUE, << content >>))
ProgramOutputs ==
  { RunOutput(content) : content \in KernelContents }
    \cup { RunOutput("answer") \o "no line break" }
    \cup { "\n\nready\n\n" \o MarkerLine("answer") }

KernelNext ==
  \/ \E n \in ChunkSizes : StreamEvent(n)
  \/ ExecutionEnds

(***************************************************************************)
(* Specifications.                                                         *)
(***************************************************************************)
\* One run of the engine, the page at rest.
InitEngine == EngineInit /\ PageQuiet /\ BridgeQuiet /\ KernelQuiet

SpecEngine == InitEngine /\ [][EngineNext]_vars

\* Successive runs of the engine in one kernel whose globals change between
\* the runs.
ReboundNames == {"search", "lookup", "_helper"}
ToolsNext ==
  \/ ChatWrapperStart
  \/ ProxyReturns(Completion("answer", << >>))
  \/ ProxyReturns(ErrorPayload)
  \/ NextExecution
  \/ \E name \in ReboundNames, signature \in Signatures \cup {NotAFunction} :
       ScriptBinds(name, signature)

InitTools == EngineInit /\ PageQuiet /\ BridgeQuiet /\ KernelQuiet

\* Successive runs of the engine in one kernel while the user switches
\* between the agents.
AgentsNext ==
  \/ ChatWrapperStart
  \/ \E payload \in {Completion("answer", << >>), ErrorPayload, Unparseable} :
       ProxyReturns(payload)
  \/ NextExecution
  \/ \E agent \in Agents : loadAgent(agent)

InitAgents == EngineInit /\ PageQuiet /\ BridgeQuiet /\ KernelQuiet

SpecAgents == InitAgents /\ [][AgentsNext]_vars

SpecTools == InitTools /\ [][ToolsNext]_vars

\* The awaited calls of the engine return: the proxy bridge answers (it has
\* its own timeout, line 1226) and tool functions return or raise.
SpecEngineFair == SpecEngine /\ WF_vars(EngineStep)

\* The page: sends, cancels, saves and the outcomes of the attempts.
InitPage == PageInit /\ EngineInit /\ BridgeQuiet /\ KernelQuiet

SpecPage == InitPage /\ [][PageNext]_vars

\* Every attempt is settled: by a kernel event or, at the latest, by the
\* ceiling timer of lines 1912-1918.
InitBridge == BridgeInit /\ EngineInit /\ PageQuiet /\ KernelQuiet
SpecBridge == InitBridge /\ [][BridgeNext]_vars

AttemptSettles(t) ==
  ExecResponse(t) \/ \E errorText \in AttemptErrors : ExecError(t, errorText)

\* One turn of a conversation: the user sends one message and may cancel.
TurnNext ==
  \/ \E via \in {"button", "enter"} : Send(1, via)
  \/ handleCancel
  \/ SaveStep
  \/ \E t \in Turns : AttemptSettles(t)
  \/ \E t \in Turns : RetryAttempt(t)
  \/ \E t \in Turns, hasTitle \in BOOLEAN : TitleReturns(t, hasTitle)

SpecTurn == InitPage /\ [][TurnNext]_vars

\* One turn while its user opens other sessions and new chats.
SwitchNext ==
  \/ TurnNext
  \/ handleNewChat
  \/ \E sessionId \in {OwnedSession, ForeignSession, Uuid(1)} : loadSession(sessionId)

SpecSwitch == InitPage /\ [][SwitchNext]_vars

\* The turns of a session that its user shares at any moment.
ShareNext ==
  \/ TurnNext
  \/ \E outcome \in {"ok", "error"} : handleShareSession(outcome)

SpecShare == InitPage /\ [][ShareNext]_vars

\* One turn with the timers firing (the ceiling of an attempt, the 300 ms
\* pause between attempts) and the artifact manager answering its calls;
\* nothing is assumed about the user or about the title call.
SpecTurnFair ==
  /\ SpecTurn
  /\ WF_vars(SaveStep)
  /\ \A t \in Turns : WF_vars(AttemptSettles(t)) /\ WF_vars(RetryAttempt(t))

\* One turn of a new chat with the engine's run followed step by step: the
\* run starts when the attempt executes the kernel code (line 2197), what it
\* prints reaches onOutput line by line, and its marker line resolves the
\* attempt's promise.
\* The completions of this turn: plain content (a text, the empty text or
\* null), one tool call, or a failure.
RunPayloads ==
  { Completion("answer", << >>), Completion("", << >>), Completion(NoValue, << >>),
    Completion("thinking", << ToolCall("c1", "search", ArgsA) >>),
    ErrorPayload, Unparseable }

\* What the service returns in the passes of one call of the proxy: the
\* same payload in every pass, or a time-out payload in the first passes
\* and a completion afterwards.
RunAnswers ==
  { << payload, payload >> : payload \in RunPayloads }
    \cup { << ErrorPayload, Completion("answer", << >>) >>,
           << ErrorPayload, ErrorPayload, Completion("answer", << >>) >> }

RunEngineStep(t) ==
  /\ turn[t].pc = "executing"
  /\ stdout = ""
  /\ \/ ChatWrapperStart
     \/ \E answers \in RunAnswers : ProxyAnswers(answers)
     \/ \E raises \in BOOLEAN : ExecuteToolCall(raises)
     \/ FinishToolRound
     \/ SoftDeadlineElapses

\* A stream event carries all the program has written since the last one;
\* the kernel posts it before the program's next step.
RunStreamEvent == StreamEvent(Len(stdout))

\* The attempt's promise has been resolved (lines 2253-2255).
RunResponse(t) ==
  /\ resolved # << >>
  /\ \E pythonResponse \in { resolved[1] } : Respond(t, pythonResponse)

RunNext ==
  \/ Send(1, "button")
  \/ SaveStep
  \/ RunEngineStep(1)
  \/ RunStreamEvent
  \/ RunResponse(1)

InitRun ==
  PageQuiet /\ EngineInit /\ BridgeQuiet /\ HookQuiet /\ outputObserved = TRUE

SpecRun == InitRun /\ [][RunNext]_vars

\* One turn of a new chat with the progress reporter followed: the
\* heartbeat ticks while an attempt executes (its period of 10 s is long
\* against the saves and the 300 ms pause between attempts), and the attempt
\* is settled with an answer, an error that is retried or one that is not.
ProgressErrors == {KernelFailedText, SyntaxErrorText}

ProgressNext ==
  \/ Send(1, "button")
  \/ SaveStep
  \/ turn[1].pc = "executing" /\ Heartbeat
  \/ ExecResponse(1)
  \/ \E errorText \in ProgressErrors : ExecError(1, errorText)
  \/ RetryAttempt(1)

InitProgress ==
  PageQuiet /\ EngineInit /\ BridgeQuiet /\ HookQuiet /\ outputObserved = TRUE

SpecProgress == InitProgress /\ [][ProgressNext]_vars

\* One execution attempt and the events that reach it.
InitAttempt ==
  PageQuiet /\ EngineInit /\ BridgeQuiet /\ HookQuiet /\ outputObserved = TRUE

SpecAttempt == InitAttempt /\ [][AttemptNext]_vars

\* The hook while an execution runs: the program's output is carried by
\* stream events of any sizes.
InitKernel ==
  /\ PageQuiet /\ EngineInit /\ BridgeQuiet
  /\ stdout \in ProgramOutputs
  /\ stdoutBuffer = ""
  /\ outputs = << >>
  /\ resolved = << >>
  /\ streamed = ""
  /\ kernelStatus = "busy"
  /\ settlement = << >>
  /\ timeoutHandle = "none"
  /\ callbacks = << >>
  /\ agentProgress = "Preparing request..."
  /\ agentProgressDetails = << >>
  /\ elapsedSeconds = 0
  /\ outputObserved = TRUE

SpecKernel == InitKernel /\ [][KernelNext]_vars

(***************************************************************************)
(* Properties of the engine (SpecEngine / SpecEngineFair).                 *)
(***************************************************************************)
IsToolCallMessage(m) == m.role = "assistant" /\ m.tool_calls # << >>

\* msgs[i] is an assistant message with tool_calls: the messages right after
\* it are its tool messages, one per tool_call, in the order of the calls.
AnsweredInOrder(msgs, i) ==
  LET tcs == msgs[i].tool_calls
      n == Len(tcs)
  IN  /\ i + n <= Len(msgs)
      /\ \A k \in 1..n :
            /\ msgs[i + k].role = "tool"
            /\ msgs[i + k].name = tcs[k].name
            /\ tcs[k].id # NoId => msgs[i + k].tool_call_id = tcs[k].id
      /\ i + n + 1 <= Len(msgs) => msgs[i + n + 1].role # "tool"

\* C1: whenever a completion request is in flight, every assistant message
\* with tool_calls in the conversation is followed by exactly one tool message
\* per tool_call, in the order of the calls and carrying each call's id,
\* whether the call succeeded, raised, had malformed arguments or named an
\* unknown tool.
C1_ToolCallsAnsweredBeforeNextRequest ==
  wrapper_pc = "awaiting" =>
    \A i \in DOMAIN py_messages :
      IsToolCallMessage(py_messages[i]) => AnsweredInOrder(py_messages, i)

\* A request is in flight after two tool rounds in which a call had malformed
\* arguments, one named an unknown tool, one raised and one succeeded.
C1_Witness ==
  /\ wrapper_pc = "awaiting"
  /\ \E i \in DOMAIN py_messages : py_messages[i].content = "Error: Invalid tool arguments"
  /\ \E i \in DOMAIN py_messages : py_messages[i].content = "Error: Tool is not available."
  /\ \E i \in DOMAIN py_messages : py_messages[i].content = "Error: raised"
  /\ \E i \in DOMAIN py_messages :
        py_messages[i].role = "tool" /\ py_messages[i].content = "output"
        /\ py_messages[i].tool_call_id = "c2"

\* C4: within one engine run the tool function is invoked at most once for
\* each (name, canonical arguments), whatever the first invocation did.
C4_SameCallInvokedAtMostOnce ==
  \A i, j \in DOMAIN invocations : invocations[i] = invocations[j] => i = j

ToolRounds == Cardinality({ i \in DOMAIN py_messages : IsToolCallMessage(py_messages[i]) })

IsSummary(text) ==
  Len(text) > Len(SummaryHeader) /\ SubSeq(text, 1, Len(SummaryHeader)) = SummaryHeader

FinalTexts ==
  {"answer", LimitText, "Error from proxy: timed out",
   "Error from proxy: Invalid JSON response", "Error executing chat"}

C5_Bounded ==
  /\ turns <= max_turns
  /\ ToolRounds <= max_turns
  /\ turns <= ToolRounds /\ ToolRounds <= turns + 1
  /\ wrapper_pc = "awaiting" => turns = ToolRounds /\ Len(proxy_requests) = turns + 1
  /\ wrapper_pc = "returned" =>
        /\ Len(sent_responses) = 1
        /\ sent_responses[1] \in FinalTexts \/ IsSummary(sent_responses[1])
  /\ wrapper_pc # "returned" => sent_responses = << >>

\* C5: an engine run terminates whatever the completions are: the turn
\* counter counts the tool rounds one by one, at most max_turns rounds are
\* executed, and the run ends with exactly one final text: a plain answer, the
\* limit-reached message, or an error / fallback message.
C5_EngineRunTerminates == []C5_Bounded /\ <>(wrapper_pc = "returned")

\* The run ended with the limit-reached message after max_turns tool rounds.
C5_Witness ==
  /\ wrapper_pc = "returned"
  /\ sent_responses = << LimitText >>
  /\ turns = max_turns
  /\ ToolRounds = max_turns

(***************************************************************************)
(* Properties of the page (SpecPage).                                      *)
(***************************************************************************)
Failed == {"failed", "failed_after_retry"}

\* C2: turns are strictly sequential: at most one handleSendMessage run is in
\* flight, and while a run is in flight no title-generation completion call
\* is in flight either.
C2_TurnsStrictlySequential ==
  /\ Cardinality({ t \in Turns : InFlight(t) }) <= 1
  /\ \A t, u \in Turns : InFlight(t) => turn[u].title_pc # "calling"

\* C3: once the user has cancelled a turn in flight, that turn neither
\* starts or restarts the engine nor delivers an assistant answer.
C3_CancelledTurnStaysCancelled ==
  [][\A t \in Turns :
       turn[t].cancelled =>
         /\ turn'[t].attempt = turn[t].attempt
         /\ turn'[t].outcome # "answer"]_vars

\* C6: right after the save of a foreign session id has returned an id, that
\* id names a new record of the current workspace whose committed message
\* list is exactly the list passed to the call, and the foreign record is as
\* it was.
C6_ForkHoldsExactlyTheMessages ==
  \A t \in Turns :
    ( /\ IsForeign(turn[t].sessionId)
      /\ turn[t].presave = "saved"
      /\ turn[t].pc \in {"executing", "backoff"} )
    => LET id == turn[t].activeSessionId
       IN /\ id # turn[t].sessionId
          /\ ~IsForeign(id)
          /\ id \in DOMAIN records
          /\ records[id].owner = Workspace
          /\ records[id].committed = File(turn[t].conv)
          /\ records[turn[t].sessionId] =
               Record(turn[t].sessionId.ws, DEFAULT_CHAT_TITLE, File(LoadedHistory))

\* C7: for a conversation that started as the local draft, at most one
\* durable record is ever created.
C7_DraftPromotedExactlyOnce ==
  (OwnedSession \notin DOMAIN records /\ ForeignSession \notin DOMAIN records)
    => Cardinality(DOMAIN records) <= 1

CommitIndexes(log) == { i \in DOMAIN log : log[i].op = "commit" }

\* The calls of log[1..i-1] made since the previous commit.
SinceLastCommit(log, i) ==
  { j \in 1..(i - 1) : \A k \in j..(i - 1) : log[k].op # "commit" }

\* One run of the write protocol obeys the order of the protocol.
WriteOrderKept(run) ==
  LET log == run.log
      commits == CommitIndexes(log)
  IN /\ log # << >> /\ log[1].op = "edit"
     /\ Cardinality(commits) <= 2
     /\ \A i \in commits :
          \E j, k \in SinceLastCommit(log, i) :
             /\ j < k
             /\ log[j] = Call("edit", log[i].id, "ok")
             /\ log[k].op = "upload" /\ log[k].outcome # "error"
     /\ \A i \in commits :
          IF log[i].outcome = "staging" /\ i = CHOOSE c \in commits : \A d \in commits : c <= d
            THEN i < Len(log) /\ log[i + 1].op = "edit"
            ELSE i = Len(log)
     /\ run.result # NullId <=> log[Len(log)] = Call("commit", run.result, "ok")
     /\ run.result = NullId <=> log[Len(log)].outcome # "ok"

\* C8: whatever the artifact manager answers, a save that has reached its
\* write protocol issues the staged edit, the upload and the commit in this
\* order; a commit that fails because the record is not in staging mode is
\* followed by one repetition of the sequence, any other failure ends the
\* save, and no save issues more than two commits.
C8_WriteProtocolOrder ==
  (Running /\ Head(saveQueue).step = "write")
    => \A run \in WriteRuns(Head(saveQueue), WriteStart(Head(saveQueue))) :
          WriteOrderKept(run)

C8_Witness ==
  \E t \in Turns :
    /\ turn[t].presave = "failed_after_retry"
    /\ turn[t].activeSessionId \in DOMAIN records
    /\ ~records[turn[t].activeSessionId].staging

\* The awaited save is in its write protocol.
AwaitedWrite(t) ==
  /\ turn[t].pc = "awaitSave"
  /\ Running /\ Head(saveQueue).step = "write" /\ Head(saveQueue).turn = t
  /\ Head(saveQueue).kind = "pre"

\* C9: the write protocol of a save never throws into the turn that awaits
\* it; when it returns, failed (also after its repeated sequence) or not, the
\* message list is as it was and the turn goes on to its first execution
\* attempt; the answer of a turn whose save failed is put into the message
\* list of the conversation the turn belongs to.
C9_FailedSaveKeepsConversation ==
  /\ [](\A t \in Turns :
          AwaitedWrite(t) =>
            \A run \in WriteRuns(Head(saveQueue), WriteStart(Head(saveQueue))) :
               run.result # Thrown)
  /\ [][\A t \in Turns :
          (AwaitedWrite(t) /\ turn'[t].pc # "awaitSave")
          => /\ turn'[t].pc = "executing" /\ turn'[t].attempt = 1
             /\ messages' = messages]_vars
  /\ [][\A t \in Turns :
          (turn[t].presave \in Failed /\ turn[t].outcome = "none"
             /\ turn'[t].outcome = "answer"
             /\ currentSessionKey = turn[t].requestSessionKey)
          => messages' = Append(turn[t].conv, ResponseMessage(t))]_vars

C9_Witness ==
  \E t \in Turns :
    /\ turn[t].presave = "failed_after_retry"
    /\ turn[t].outcome = "answer"
    /\ messages = Append(turn[t].conv, ResponseMessage(t))

\* The ceiling timer rejects the attempt of turn t in this step.
CeilingElapses(t) ==
  /\ turn[t].pc = "executing"
  /\ turn'[t].errors = Append(turn[t].errors, CeilingError)

Ceilings(t) ==
  Cardinality({ i \in DOMAIN turn[t].errors : turn[t].errors[i] = CeilingError })

TimedOut(t) ==
  /\ turn[t].outcome = "error"
  /\ turn[t].errors # << >>
  /\ turn[t].errors[Len(turn[t].errors)] = CeilingError

TurnEnds(t) == InFlight(t) /\ turn'[t].pc = "done"

\* The last message of the list is the answer or the error message of turn t.
ReportsTurn(msgs, t) ==
  /\ msgs # << >>
  /\ msgs[Len(msgs)].turn = t
  /\ msgs[Len(msgs)].role \in {"assistant", "system"}

IsErrorContent(content) == Len(content) >= 6 /\ SubSeq(content, 1, 6) = "Error:"

\* The outputs of the tool calls that succeeded so far, read off the tool
\* messages of the history in their order.
SuccessfulOutputs ==
  LET ok(m) == m.role = "tool" /\ ~IsErrorContent(m.content)
      kept == SelectSeq(py_messages, ok)
  IN [i \in DOMAIN kept |-> kept[i].content]

\* The text lists output number i: its first 600 characters at most, followed
\* by an ellipsis when the output is longer.
ListsOutput(text, i, output) ==
  IF Len(output) <= 600
    THEN Contains(text, ToString(i) \o ". search: " \o output \o "\n")
    ELSE /\ Contains(text, ToString(i) \o ". search: " \o SubSeq(output, 1, 600) \o "...\n")
         /\ ~Contains(text, output)

\* C12: when a follow-up completion call returns an error payload or a text
\* that is not JSON after at least one tool call succeeded, the final answer
\* is the summary: it lists the first five successful outputs at most, each
\* cut to 600 characters, counts the omitted ones when there are more than
\* five, and is never the bare proxy error; with three successful calls all
\* three outputs are listed.
C12_FailedFollowUpIsSummarized ==
  [][\A payload \in {ErrorPayload, Unparseable} :
       (ProxyReturns(payload) /\ SuccessfulOutputs # << >>) =>
         LET text == sent_responses'[Len(sent_responses')]
             n == Len(SuccessfulOutputs)
         IN /\ IsSummary(text)
            /\ ~Contains(text, "Error from proxy")
            /\ \A i \in 1..n : i <= 5 => ListsOutput(text, i, SuccessfulOutputs[i])
            /\ \A i \in 1..n : i > 5 => ~Contains(text, ToString(i) \o ". search: ")
            /\ IF n > 5
                 THEN Contains(text, "...and " \o ToString(n - 5) \o " more tool result(s).")
                 ELSE ~Contains(text, "more tool result(s).")]_vars

\* A run that ended with the summary of six successful calls, an output
\* longer than 600 characters among the first five.
C12_Witness ==
  /\ wrapper_pc = "returned"
  /\ Len(SuccessfulOutputs) = 6
  /\ \E i \in 1..5 : Len(SuccessfulOutputs[i]) > 600
  /\ IsSummary(sent_responses[1])
  /\ Contains(sent_responses[1], "...and 1 more tool result(s).")

\* A run that ended with the summary of exactly three successful calls.
C12_WitnessThree ==
  /\ wrapper_pc = "returned"
  /\ Len(SuccessfulOutputs) = 3
  /\ IsSummary(sent_responses[1])

(***************************************************************************)
(* Properties of the tool loop's error handling.                           *)
(***************************************************************************)
\* The tool call the for-loop is at.
CurrentToolCall == response_message.tool_calls[tool_idx]

\* The pass of the for-loop that is taken meets one of the three faults:
\* arguments json.loads rejects, a tool that is not available, or a tool
\* function that raises.
FaultyPass(raises) ==
  /\ ExecuteToolCall(raises)
  /\ LET tc == CurrentToolCall
     IN \/ ~tc.arguments.wellformed
        \/ /\ tc.id # NoId
           /\ \/ tc.name \notin available_functions
              \/ /\ raises
                 /\ CacheKey(tc.name, JsonLoads(tc.arguments)) \notin DOMAIN tool_result_cache

\* Every tool call from the current one on can be read (has an id or fails
\* earlier, on its arguments).
RestReadable ==
  \A i \in tool_idx..Len(response_message.tool_calls) :
    LET tc == response_message.tool_calls[i]
    IN tc.id # NoId \/ ~tc.arguments.wellformed

\* C13: malformed arguments, a raising tool and an unknown tool do not end
\* the run: the pass appends one tool-role error message for the call and
\* moves to the next tool call without sending a response, and the loop,
\* once in the tool round, goes on to the next completion request.
C13_ToolFaultsBecomeMessages ==
  /\ [][\A raises \in BOOLEAN :
          FaultyPass(raises) =>
            /\ wrapper_pc' = "tools"
            /\ tool_idx' = tool_idx + 1
            /\ sent_responses' = sent_responses
            /\ Len(py_messages') = Len(py_messages) + 1
            /\ SubSeq(py_messages', 1, Len(py_messages)) = py_messages
            /\ LET m == py_messages'[Len(py_messages')]
               IN /\ m.role = "tool"
                  /\ IsErrorContent(m.content)
                  /\ m.name = CurrentToolCall.name
                  /\ m.tool_call_id \in {CurrentToolCall.id, UnknownToolCallId}]_vars
  /\ (wrapper_pc = "tools" /\ RestReadable)
        ~> (wrapper_pc = "awaiting" /\ Len(proxy_requests) = turns + 1)

\* The third request is in flight after tool rounds in which each of the
\* three faults occurred, the faulty call not being the last of its message.
C13_Witness ==
  /\ wrapper_pc = "awaiting" /\ Len(proxy_requests) = 3
  /\ \E i \in DOMAIN py_messages :
       /\ i < Len(py_messages)
       /\ py_messages[i].content = "Error: Invalid tool arguments"
       /\ py_messages[i + 1].role = "tool"
  /\ \E i \in DOMAIN py_messages : py_messages[i].content = "Error: Tool is not available."
  /\ \E i \in DOMAIN py_messages :
       /\ i < Len(py_messages)
       /\ py_messages[i].content = "Error: raised"
       /\ py_messages[i + 1].role = "tool"

(***************************************************************************)
(* Properties of the message list during a turn.                           *)
(***************************************************************************)
\* C14: no step of a turn (sending, cancelling, saving, retrying, answering,
\* failing) removes or replaces a message that is already in the list: the
\* list before the step is a prefix of the list after it.
C14_MessagesAppendOnly ==
  [][/\ Len(messages') >= Len(messages)
     /\ SubSeq(messages', 1, Len(messages)) = messages]_vars

\* The failure messages (cancellation notice, error message) the list holds
\* after the user message of turn t.
FailureMessages(t) ==
  { i \in DOMAIN messages :
      /\ messages[i].role = "system"
      /\ \E j \in 1..(i - 1) : messages[j] = UserMessage(t) }

\* C15: a turn that has ended in failure (its run ended with an error, or it
\* was cancelled) has exactly one failure message in the conversation.
C15_ExactlyOneFailureMessage ==
  \A t \in Turns :
    (turn[t].pc = "done" /\ (turn[t].outcome = "error" \/ turn[t].cancelled))
      => Cardinality(FailureMessages(t)) = 1

(***************************************************************************)
(* Properties of the bridge (SpecBridge).                                  *)
(***************************************************************************)
\* The lookups of the resolution under way go through the candidates in the
\* priority order of the resolution, round after round.
InPriorityOrder ==
  \A i \in DOMAIN lookups :
    lookups[i].service =
      prioritizedServiceIds[((i - 1) % Len(prioritizedServiceIds)) + 1]

\* A step in which the resolution under way gives up.
ResolutionFails ==
  /\ bridge_pc = "resolving"
  /\ Lookup
  /\ bridge_pc' = "returned" \/ completion_attempt' # completion_attempt

\* C16: a resolution that performs lookups tries the candidates in its
\* priority order and returns the first one that resolves to a service with
\* chat_completion; it never performs more than 3 lookups per candidate, and
\* fails only when every candidate has failed in each of the 3 rounds.
C16_ResolutionReturnsFirstResolvable ==
  /\ [](/\ InPriorityOrder
        /\ Len(lookups) <= 3 * Len(CHAT_PROXY_SERVICE_IDS)
        /\ \A i \in DOMAIN lookups : lookups[i].ok => i = Len(lookups)
        /\ (bridge_pc = "completing" /\ lookups # << >>) =>
              /\ lookups[Len(lookups)].ok
              /\ proxyForAttempt = lookups[Len(lookups)].service
              /\ cachedChatProxyServiceId = proxyForAttempt
              /\ activeChatProxyServiceId = proxyForAttempt)
  /\ [][ResolutionFails =>
          /\ Len(lookups) + 1 = 3 * Len(prioritizedServiceIds)
          /\ \A i \in DOMAIN lookups : ~lookups[i].ok
          /\ services[prioritizedServiceIds[resolve_idx]] # "ok"]_vars

\* A resolution has failed after nine failed lookups.
ResolutionFailed == bridge_pc = "returned" /\ Len(lookups) = 9

\* A resolution returns a service in its second round, after four failed
\* lookups.
C16_Witness ==
  /\ bridge_pc = "completing"
  /\ Len(lookups) = 5
  /\ lookups[5].ok
  /\ lookups[5].service = prioritizedServiceIds[2]

\* The candidates whose completion attempt has failed in the call under way.
FailedInCall == { tried[i] : i \in DOMAIN tried }

\* C17: at every retry of a call the candidate whose completion has just
\* failed is the last of the resolution's priority order, and the resolution
\* does not return a candidate that has already failed in this call while a
\* fallback that resolves and has not been tried in this call was not even
\* looked up.
C17_UntriedFallbackBeforeFailedCandidate ==
  /\ []((bridge_pc = "resolving" /\ completion_attempt > 1 /\ tried # << >>) =>
          prioritizedServiceIds[Len(prioritizedServiceIds)] = tried[Len(tried)])
  /\ [][(Lookup /\ completion_attempt > 1 /\ bridge_pc' = "completing"
           /\ proxyForAttempt' \in FailedInCall) =>
          \A fallback \in CandidateIds \ FailedInCall :
            services[fallback] = "ok" =>
              \E i \in DOMAIN lookups : lookups[i].service = fallback]_vars

\* The payload carries an error string or a phrase that tells of a timeout.
CarriesError(payload) ==
  \/ payload.error # NoValue
  \/ payload.message # NoValue /\ TimeoutPhrase(payload.message)

\* C18: a payload of chat_completion that carries an error string or a
\* timeout phrase is not returned to the engine while attempts remain: the
\* bridge returns such a payload only from its third attempt.
C18_ErrorPayloadRetriedWhileAttemptsRemain ==
  [][\A outcome \in CompletionOutcomes :
       (CompletionSettles(outcome) /\ outcome.kind = "payload"
          /\ CarriesError(outcome.payload) /\ completion_attempt < 3) =>
         bridge_pc' = "resolving"]_vars

(***************************************************************************)
(* Properties of the attempt loop (SpecTurn).                              *)
(***************************************************************************)
\* The transient failures of the kernel: a syntax fault of the generated
\* code, the timeout of the round trip, the bridge not being available.
Transient(errorText) ==
  errorText \in {SyntaxErrorText, CeilingError, BridgeUnavailableText}

\* C19: an attempt that fails with a transient failure is run again after
\* the kernel was interrupted, three attempts at most being made in a turn;
\* any other failure ends the turn with the attempt it occurred in; a turn
\* that ends with an error shows the error of its last attempt.
C19_TransientFailuresRetried ==
  \A t \in Turns :
    LET tr == turn[t]
        n == Len(tr.errors)
    IN tr.attempt >= 1 =>
         /\ tr.attempt <= maxExecutionAttempts
         /\ \A i \in 1..(n - 1) : Transient(tr.errors[i])
         /\ tr.pc = "executing" => n = tr.attempt - 1 /\ tr.interrupts = tr.attempt - 1
         /\ tr.pc = "backoff" =>
               /\ n = tr.attempt /\ tr.interrupts = tr.attempt
               /\ tr.attempt < maxExecutionAttempts
               /\ Transient(tr.errors[n])
         /\ (tr.pc = "done" /\ tr.outcome = "error") =>
               /\ n = tr.attempt
               /\ ~Transient(tr.errors[n]) \/ tr.attempt = maxExecutionAttempts
               /\ \E i \in DOMAIN messages : messages[i] = ErrorResponse(t, tr.errors[n])
               /\ \A i \in DOMAIN messages, e \in AttemptErrors :
                    messages[i] = ErrorResponse(t, e) => e = tr.errors[n]

\* A turn has ended with the error of its third attempt after two transient
\* failures of other kinds.
C19_Witness ==
  \E t \in Turns :
    /\ turn[t].pc = "done" /\ turn[t].outcome = "error"
    /\ turn[t].errors = << SyntaxErrorText, BridgeUnavailableText, CeilingError >>
    /\ turn[t].interrupts = 2
    /\ messages[Len(messages)] = ErrorResponse(t, CeilingError)

(***************************************************************************)
(* Properties of the timeout errors.                                       *)
(***************************************************************************)
\* The text tells which stage of the round trip was reached.
NamesStage(text) ==
  \/ Contains(text, "resolution")
  \/ Contains(text, "completion")

\* C20: every timeout error an execution attempt is rejected with names the
\* stage of the round trip that was reached, the resolution of the service
\* or the completion.
C20_TimeoutErrorNamesStage ==
  \A t \in Turns : \A i \in DOMAIN turn[t].errors :
    TimeoutPhrase(turn[t].errors[i]) => NamesStage(turn[t].errors[i])

(***************************************************************************)
(* Properties of one turn with its engine run (SpecRun).                   *)
(***************************************************************************)
\* The turn has ended with an answer after a run in which the first
\* completion carried one tool call, the tool returned, and the second
\* completion was plain content.
OneToolCallThenContent ==
  /\ turn[1].pc = "done" /\ turn[1].outcome = "answer"
  /\ Len(py_messages) = Len(InitialHistory) + 2
  /\ LET call == py_messages[Len(InitialHistory) + 1]
         result == py_messages[Len(InitialHistory) + 2]
     IN /\ IsToolCallMessage(call) /\ Len(call.tool_calls) = 1
        /\ result.role = "tool" /\ ~IsErrorContent(result.content)
  /\ response_message.tool_calls = << >>
  /\ response_message.content = "answer"

Roles(msgs) == [i \in DOMAIN msgs |-> msgs[i].role]

\* C21: after a turn of one tool call followed by plain content, exactly one
\* final assistant message equal to that content has been produced, the
\* conversation holds exactly the four messages user, assistant with the
\* tool call, tool result, final assistant message, and exactly two
\* completion requests were made.
C21_OneToolCallTurnHoldsFourMessages ==
  OneToolCallThenContent =>
    /\ Cardinality({ i \in DOMAIN messages :
                       messages[i] = ChatMessage("assistant", "answer", 1) }) = 1
    /\ sent_responses = << "answer" >>
    /\ Roles(messages) = << "user", "assistant", "tool", "assistant" >>
    /\ Len(proxy_requests) = 2

\* The service's answers to one completion call that times out twice and
\* would succeed in a third pass.
TimedOutTwiceThenAnswer ==
  << ErrorPayload, ErrorPayload, Completion("answer", << >>) >>

\* The turn has ended, and its one completion call met a service that timed
\* out twice and would have answered the third time.
TurnOfTwoTimeouts ==
  /\ turn[1].pc = "done"
  /\ service_answers = << TimedOutTwiceThenAnswer >>

IsRetryingDetail(detail) == Contains(detail, "etrying")

\* C22: when the service returns a timed-out error payload twice and would
\* succeed on the third attempt, the retries resolve the service through the
\* alternate candidate, the engine receives the successful result, and the
\* turn's progress trace holds at least one retrying detail line.
C22_TwoTimeoutsThenSuccess ==
  TurnOfTwoTimeouts =>
    /\ \E i \in DOMAIN outputs :
         outputs[i] = "DEBUG: Python fallback resolved chat-proxy service via "
                        \o CHAT_PROXY_SERVICE_IDS[2]
    /\ sent_responses = << "answer" >>
    /\ turn[1].outcome = "answer"
    /\ \E i \in DOMAIN turn[1].progressTrace.details :
         IsRetryingDetail(turn[1].progressTrace.details[i])

\* The turn has ended after one completion that carried no tool calls.
PlainContentTurn ==
  /\ turn[1].pc = "done"
  /\ Len(proxy_requests) = 1
  /\ response_message.role = "assistant"
  /\ response_message.tool_calls = << >>

\* The texts of the assistant messages the page shows.
ShownAnswers ==
  { messages[i].text : i \in { j \in DOMAIN messages : messages[j].role = "assistant" } }

\* C28: when the completion carries no tool calls the loop ends, and the
\* assistant message shown equals the completion's content, whatever the
\* content is (the empty text and null included).
C28_PlainContentIsShownAsIs ==
  PlainContentTurn =>
    /\ wrapper_pc = "returned"
    /\ sent_responses = << response_message.content >>
    /\ ShownAnswers = { response_message.content }

(***************************************************************************)
(* The published service id (SpecBridge).                                  *)
(***************************************************************************)
\* globalThis.__chatProxyServiceId is written together with
\* activeChatProxyServiceIdRef.current (lines 1407-1408 and 1476-1477).
PublishedServiceId == activeChatProxyServiceId

PublishedIsCachedOrPrimary ==
  IF cachedChatProxyServiceId = NoValue
    THEN /\ PublishedServiceId = CHAT_PROXY_SERVICE_IDS[1]
         /\ Contains(PublishedServiceId, "default@chat-proxy-dev")
    ELSE PublishedServiceId = cachedChatProxyServiceId

\* The resolve() of a call (line 1501, no forced refresh) when a binding is
\* cached: the call goes on with that binding and no lookup is made.
CachedBindingReturnedWithoutLookup ==
  (bridge_calls' = bridge_calls + 1 /\ cachedChatProxyServiceId # NoValue) =>
    /\ bridge_pc' = "completing"
    /\ proxyForAttempt' = cachedChatProxyServiceId
    /\ lookups' = lookups
    /\ UNCHANGED <<cachedChatProxyServiceId, activeChatProxyServiceId>>

FinalizeMessages == { i \in DOMAIN py_messages : py_messages[i] = FinalizeMessage }
ToolRoundEnds == wrapper_pc = "tools" /\ wrapper_pc' = "awaiting"
RequestSent == Len(proxy_requests') = Len(proxy_requests) + 1
LastRequest == proxy_requests[Len(proxy_requests)]

\* A tool round that ends after the soft deadline without an earlier
\* finalization request appends the finalize message, once, and asks with
\* tool_choice "none".
FinalizesAtDeadline ==
  (ToolRoundEnds /\ soft_deadline_passed /\ ~timeout_finalize_requested) =>
    /\ py_messages' = Append(py_messages, FinalizeMessage)
    /\ RequestSent /\ LastRequest' = "none"

\* A request is sent with "none" when the finalize message is in the
\* history it carries and with "auto" when it is not.
RequestFollowsFinalization ==
  RequestSent =>
    LastRequest' = IF \E i \in DOMAIN py_messages' : py_messages'[i] = FinalizeMessage
                     THEN "none" ELSE "auto"

\* C26: if the soft deadline has passed when a tool round ends and
\* finalization has not been requested, exactly one finalize system message
\* is appended and the next request uses tool_choice "none"; a run appends
\* at most one such message, every request sent after it uses "none" and
\* every request sent before it uses "auto".
C26_FinalizeOnceThenNone ==
  /\ [][FinalizesAtDeadline]_vars
  /\ [](Cardinality(FinalizeMessages) <= 1)
  /\ [][RequestFollowsFinalization]_vars

\* A run that asked once with "auto", was finalized at the end of its first
\* tool round and asked twice more.
C26_Witness ==
  /\ Cardinality(FinalizeMessages) = 1
  /\ proxy_requests = << "auto", "none", "none" >>

\* C27: once finalization has been requested, a completion that still
\* carries tool calls is not accepted (its message does not enter the
\* history) and no tool function is invoked.
C27_NoToolCallsAfterFinalization ==
  [][timeout_finalize_requested =>
       /\ invocations' = invocations
       /\ ToolRounds' = ToolRounds]_vars

(***************************************************************************)
(* Properties of the progress reporter (SpecProgress).                     *)
(***************************************************************************)
\* `after` is `before` with entries appended at its end, the oldest entries
\* dropped only when the list is full.
DetailsAppended(before, after) ==
  \E dropped \in 0..Len(before) :
    LET kept == SubSeq(before, dropped + 1, Len(before))
    IN /\ Len(after) >= Len(kept)
       /\ SubSeq(after, 1, Len(kept)) = kept
       /\ dropped > 0 => Len(after) = MAX_PROGRESS_TRACE_DETAILS

TurnStarts == \E t \in Turns : turn[t].pc = "idle" /\ turn'[t].pc # "idle"
TurnCompletes(t) == turn[t].pc # "done" /\ turn'[t].pc = "done"

DetailsNeverExceedCap == Len(agentProgressDetails) <= MAX_PROGRESS_TRACE_DETAILS
DetailsResetAtTurnStart == TurnStarts => agentProgressDetails' = << >>
DetailsOnlyAppended ==
  ~TurnStarts => DetailsAppended(agentProgressDetails, agentProgressDetails')
TraceIsProgressAtCompletion ==
  \A t \in Turns :
    TurnCompletes(t) =>
      turn'[t].progressTrace
        = ProgressTraceSnapshot(Progress(agentProgress', agentProgressDetails'))

\* C29: the detail list is emptied when a turn starts, otherwise changes
\* only by entries appended at its end, never holds more than 30 entries,
\* and the trace attached to the message a turn produces (its answer or its
\* error message) is the summary and the detail list as they stand when the
\* turn completes.
C29_ProgressTraceDiscipline ==
  /\ []DetailsNeverExceedCap
  /\ [][DetailsResetAtTurnStart]_vars
  /\ [][DetailsOnlyAppended]_vars
  /\ [][TraceIsProgressAtCompletion]_vars

(***************************************************************************)
(* Permissions of the session records (SpecShare).                         *)
(***************************************************************************)
\* The levels of the artifact manager that let their holder change a record.
WriteLevels == {"rw", "rw+", "a", "*"}

\* A record that appears in the store is private to its owner, this
\* workspace.
RecordsCreatedPrivate ==
  \A id \in DOMAIN records' \ DOMAIN records :
     /\ records'[id].owner = Workspace
     /\ records'[id].permissions = CreatedPermissions

\* A step that changes the permissions of a record is the share of the
\* current session: it sets the share grant and does nothing else.
PermissionsChangeOnlyByShare ==
  \A id \in DOMAIN records \cap DOMAIN records' :
     records'[id].permissions # records[id].permissions =>
       /\ id = currentSessionId
       /\ records' = [records EXCEPT ![id].permissions = SharedPermissions]
       /\ UNCHANGED <<pageState, saveQueue, faults>>

\* No record ever grants a level that lets others change it.
NoWriteAccessGranted ==
  \A id \in DOMAIN records :
     /\ records[id].permissions \in {CreatedPermissions, SharedPermissions}
     /\ \A who \in {"*", "@"} : records[id].permissions[who] \notin WriteLevels

DiscoveryRuns == wrapper_pc = "start" /\ wrapper_pc' = "awaiting"

\* The functions of the namespace that count as tools.
ToolFunctions ==
  { name \in DOMAIN sandbox_globals :
      /\ sandbox_globals[name] # NotAFunction
      /\ SubSeq(name, 1, 1) # "_"
      /\ name \notin _EXCLUDED_TOOL_NAMES }

EveryCachedNameResolves ==
  \A i \in DOMAIN cached_tool_names[1] :
     sandbox_globals[cached_tool_names[1][i]] # NotAFunction

\* The run's specs are those of a scan of the present namespace, and they
\* are what the cache now holds, by name.
FreshScan ==
  /\ scans' = scans + 1
  /\ ~discovery'.reused_cached_tools
  /\ { discovery'.tools[i].name : i \in DOMAIN discovery'.tools } = ToolFunctions
  /\ \A i \in DOMAIN discovery'.tools :
       discovery'.tools[i].parameters = sandbox_globals[discovery'.tools[i].name]
  /\ cached_tool_specs' = << discovery'.tools >>
  /\ cached_tool_names' = << SpecNames(discovery'.tools) >>

\* The run's specs are the cached ones; nothing is scanned or stored.
CachedSpecsReused ==
  /\ scans' = scans
  /\ discovery'.reused_cached_tools
  /\ discovery'.tools = cached_tool_specs[1]
  /\ UNCHANGED <<cached_tool_specs, cached_tool_names>>

DiscoveryIsCached ==
  DiscoveryRuns =>
    IF executions = 0 THEN FreshScan
    ELSE IF EveryCachedNameResolves THEN CachedSpecsReused
    ELSE FreshScan

\* C30: the first run of the engine in a kernel scans the namespace and
\* caches the tool specs by name; every later run reuses the cached specs
\* without a scan as long as every cached name is still bound to a function,
\* and rebuilds them by a fresh scan when a cached name no longer is.
C30_ToolsDiscoveredOncePerSandbox == [][DiscoveryIsCached]_vars

\* The third run reuses, unscanned, specs that the second run rebuilt and
\* that no longer describe the function bound to the name.
C30_Witness ==
  /\ executions = 3
  /\ scans = 2
  /\ discovery.reused_cached_tools
  /\ \E i \in DOMAIN discovery.tools :
       discovery.tools[i].parameters # sandbox_globals[discovery.tools[i].name]

(***************************************************************************)
(* Properties of the kernel hook's output path (SpecKernel).               *)
(***************************************************************************)
\* The lines of the unsplit stream: the complete lines of the text carried
\* so far and its unfinished last line.
StreamSplit == SplitLines(streamed)

\* The hook has delivered the complete non-empty lines of the text carried
\* so far and holds the unfinished line; when the execution has ended it
\* has delivered the unfinished line as well.
DeliversTheLinesOfTheStream ==
  IF kernelStatus = "busy"
    THEN /\ outputs = NonEmpty(StreamSplit.lines)
         /\ stdoutBuffer = StreamSplit.remainder
    ELSE /\ outputs = NonEmpty(StreamSplit.lines \o << StreamSplit.remainder >>)
         /\ stdoutBuffer = ""

\* The delivered lines that begin with the marker prefix.
MarkerLines ==
  { i \in DOMAIN outputs : HasPrefix(outputs[i], RESPONSE_MARKER) }
FirstMarkerLine == outputs[CHOOSE i \in MarkerLines : \A j \in MarkerLines : i <= j]

\* C23: however the output stream is split into events, the output
\* callback receives the complete lines of the unsplit stream, and the
\* answer the attempt is resolved with is the value that follows the marker
\* prefix of the first marker line (no answer before such a line arrives).
C23_ChunkingPreservesLinesAndAnswer ==
  /\ DeliversTheLinesOfTheStream
  /\ resolved = IF MarkerLines = {} THEN << >>
                ELSE << ExtractResponse(FirstMarkerLine) >>

(***************************************************************************)
(* What the saves of a turn leave in the store (SpecTurn).                 *)
(***************************************************************************)
\* The turn has answered, its title call is over and no save is queued or
\* running; no call of the artifact manager has failed.
TurnAnsweredAndSaved(t) ==
  /\ turn[t].pc = "done" /\ turn[t].outcome = "answer"
  /\ turn[t].title_pc # "calling"
  /\ saveQueue = << >>
  /\ faults = 0
  /\ turn[t].activeSessionId \in DOMAIN records

\* finalConversation of line 2285.
AnsweredConversation(t) ==
  Append(turn[t].conv, ChatMessage("assistant", "answer", t))

\* C31: once a turn has answered and every queued save has finished, the
\* persisted message list of its session is the final conversation with
\* the answer; a title save that completes later does not put back the
\* list the title generation was started with.
C31_TitleSaveKeepsFinalConversation ==
  \A t \in Turns :
     TurnAnsweredAndSaved(t) =>
       records[turn[t].activeSessionId].committed = File(AnsweredConversation(t))


(***************************************************************************)
(* The in-flight indicator (SpecPage).                                     *)
(***************************************************************************)
\* A turn that was sent, has not ended and was not cancelled.
StillRunning(t) == InFlight(t) /\ ~turn[t].cancelled

\* C32: the in-flight indicator is set exactly while some turn is in
\* flight; the end of an earlier turn (one that was cancelled and settles
\* later, for example) does not clear the indicator of a later turn that is
\* still running.
C32_IndicatorSetWhileTurnRuns ==
  /\ isTyping => \E t \in Turns : InFlight(t)
  /\ (\E t \in Turns : StillRunning(t)) => isTyping


(***************************************************************************)
(* The chain of saves (SpecTurn).                                          *)
(***************************************************************************)
\* Only the save that was called first among the unfinished ones has started
\* its calls to the artifact manager.
OnlyOldestSaveRuns ==
  \A i \in DOMAIN saveQueue : saveQueue[i].step # "queued" => i = 1

\* The unfinished saves change by a new call joining at the end, by the
\* oldest one going on, or by the oldest one ending, and in no other way.
SavesKeepCallOrder ==
  \/ saveQueue' = saveQueue
  \/ /\ Len(saveQueue') = Len(saveQueue) + 1
     /\ saveQueue'[Len(saveQueue')].step = "queued"
     /\ SubSeq(saveQueue', 1, Len(saveQueue)) = saveQueue
  \/ /\ saveQueue # << >>
     /\ saveQueue' # << >>
     /\ Tail(saveQueue') = Tail(saveQueue)
  \/ /\ saveQueue # << >>
     /\ saveQueue' = Tail(saveQueue)

\* C33: the saves are serialized: the calls of one saveSession never
\* interleave with those of another, and the saves run in the order in
\* which saveSession was called, also after a save that failed.
C33_SavesSerializedInCallOrder ==
  /\ []OnlyOldestSaveRuns
  /\ [][SavesKeepCallOrder]_vars

\* A save has thrown or failed, and the save called after it is running
\* while a third one waits.
C33_Witness ==
  /\ faults > 0
  /\ Len(saveQueue) >= 2
  /\ saveQueue[1].kind # "pre"
  /\ saveQueue[1].step = "write"
  /\ saveQueue[2].step = "queued"


(***************************************************************************)
(* What a successful save has stored (SpecTurn).                           *)
(***************************************************************************)
\* The calls of a run after its last upload.
AfterLastUpload(run) ==
  LET uploads == { i \in DOMAIN run.log : run.log[i].op = "upload" }
      last == CHOOSE i \in uploads : \A j \in uploads : j <= i
  IN  IF uploads = {} THEN << >> ELSE SubSeq(run.log, last, Len(run.log))

\* A run that reports success has stored the payload, and an upload that
\* was answered with an HTTP error status is followed by no commit.
SuccessMeansStored(job, run) ==
  /\ run.result # NullId => run.rec.committed = File(job.msgs)
  /\ LET calls == AfterLastUpload(run)
     IN (calls # << >> /\ calls[1].outcome = "http_error")
          => /\ run.result = NullId
             /\ \A i \in DOMAIN calls : calls[i].op # "commit"

\* C34: saveSession returns the session id only if the message list was
\* stored: when the upload request is answered with an HTTP error status,
\* no commit is issued and the save reports failure.
C34_SuccessOnlyIfPayloadStored ==
  (Running /\ Head(saveQueue).step = "write")
    => \A run \in WriteRuns(Head(saveQueue), WriteStart(Head(saveQueue))) :
          SuccessMeansStored(Head(saveQueue), run)


(***************************************************************************)
(* The conversation on display when a turn ends (SpecSwitch).              *)
(***************************************************************************)
\* The turn ends in this step and the displayed message list changes.
CompletionChangesDisplay(t) ==
  /\ turn[t].pc # "done" /\ turn'[t].pc = "done"
  /\ messages' # messages

\* The display is the conversation the turn was sent in: it still holds the
\* turn's user message, or the page shows the stored session of the turn.
ShowsConversationOf(t) ==
  \/ \E i \in DOMAIN messages : messages[i] = UserMessage(t)
  \/ /\ currentSessionId \in DOMAIN records
     /\ currentSessionId \in {turn[t].sessionId, turn[t].activeSessionId}

\* C35: the answer or error message of a turn is added only to the message
\* list of the session the turn was started in; when the user has opened
\* another session or a new chat before the turn ends, the end of the turn
\* leaves the displayed conversation as it is.
C35_CompletionLeavesOtherSessionAlone ==
  [][\A t \in Turns : CompletionChangesDisplay(t) => ShowsConversationOf(t)]_vars


(***************************************************************************)
(* The tools offered after a change of agent (SpecAgents).                 *)
(***************************************************************************)
\* The tool functions named by the specs a run sends with its requests.
OfferedTools == { discovery.tools[i].name : i \in DOMAIN discovery.tools }

\* C36: the tool specs sent with a completion request describe the tool
\* functions of the agent that is loaded: after a change of agent in the
\* same kernel a run offers the new agent's tools and none of the agent
\* loaded before.
C36_OfferedToolsAreThoseOfLoadedAgent ==
  wrapper_pc = "awaiting" => OfferedTools = AgentFunctions(loadedAgent)


(***************************************************************************)
(* The settlement of an execution attempt (SpecAttempt).                   *)
(***************************************************************************)
\* The events that decide an attempt, and the outcome each one gives.
IsMarkerLine(event) ==
  event.type = "stdout" /\ Contains(event.content, RESPONSE_MARKER)
Decides(event) ==
  \/ IsMarkerLine(event)
  \/ event.type = "error"
  \/ event = StatusEvent("Error")
  \/ event = CeilingEvent
OutcomeOf(event, outcome) ==
  IF IsMarkerLine(event)
    THEN /\ outcome.kind = "resolved"
         /\ \A text \in {"answer", "second answer"} :
              event.content = MarkerLine(text) => outcome.value = text
  ELSE /\ outcome.kind = "rejected"
       /\ event.type = "error" /\ event.content # "" => outcome.value = event.content
       /\ event = StatusEvent("Error") => outcome.value = KernelFailedText
       /\ event = CeilingEvent => outcome.value = CeilingError

DecidingEvents == { i \in DOMAIN callbacks : Decides(callbacks[i]) }

\* The attempt is pending until the first deciding event and has that
\* event's outcome from then on.
FirstEventDecides ==
  IF DecidingEvents = {} THEN settlement = << >>
  ELSE /\ settlement # << >>
       /\ OutcomeOf(callbacks[CHOOSE i \in DecidingEvents :
                                \A j \in DecidingEvents : i <= j],
                    settlement[1])

\* The ceiling timer is set while the attempt is pending and cancelled from
\* the moment it settles.
TimerCancelledWhenSettled ==
  timeoutHandle # "none" =>
    (timeoutHandle = "armed" <=> settlement = << >>)

\* C37: an execution attempt settles exactly once, with the outcome of the
\* first marker line, error output, Error status or ceiling timer to occur;
\* no later event changes the outcome, and the ceiling timer is cancelled as
\* soon as the attempt settles.
C37_AttemptSettlesOnce ==
  /\ [](FirstEventDecides /\ TimerCancelledWhenSettled)
  /\ [][settlement # << >> => settlement' = settlement]_vars

\* The marker line came first; an error output and an Error status that
\* followed left the answer in place.
C37_Witness ==
  /\ Len(callbacks) >= 3
  /\ callbacks[1] = OutputLog("stdout", MarkerLine("answer"))
  /\ callbacks[2].type = "error"
  /\ callbacks[3] = StatusEvent("Error")
  /\ settlement = << Resolved("answer") >>
  /\ timeoutHandle = "cleared"


(***************************************************************************)
(* The marker lines of a run (SpecEngine).                                 *)
(***************************************************************************)
\* C38: a run of the engine emits exactly one response-marker line on every
\* path (plain answer, limit reached, proxy error on the first or on a
\* follow-up call, summary of the tool results, unexpected exception): none
\* while it runs, one when it has returned, never two.
C38_ExactlyOneMarkerLinePerRun ==
  Len(sent_responses) = IF wrapper_pc = "returned" THEN 1 ELSE 0

\* A run that ended in the handler of unexpected exceptions after tool
\* calls had succeeded.
C38_Witness ==
  /\ wrapper_pc = "returned"
  /\ sent_responses = << "Error executing chat" >>
  /\ successful_tool_calls > 0


(***************************************************************************)
(* The title of a session under saves without a title (SpecTurn).          *)
(***************************************************************************)
\* The save at the head of the queue was called without a title.
UntitledSaveRuns == Len(saveQueue) > 0 /\ Head(saveQueue).title = ""

TitleKept(id) == id \in DOMAIN records' /\ records'[id].name = records[id].name

\* C39: a save made without an explicit title never changes the persisted
\* title of a session, also when reading the existing record fails: no step
\* of such a save changes the name of a stored record.
C39_UntitledSaveKeepsTitle ==
  [][UntitledSaveRuns => \A id \in DOMAIN records : TitleKept(id)]_vars


(***************************************************************************)
(* Successive executions on one kernel hook (SpecExecutions).              *)
(***************************************************************************)
\* The attempt as the hook's callbacks see it: settled once an answer has
\* been extracted.
HookAttempt ==
  Attempt(IF resolved = << >> THEN settlement ELSE << Resolved(resolved[1]) >>,
          timeoutHandle, currentProgress)

\* The line buffer after the catch block of createExecuteCodeFunction,
\* lines 410-429 of the hook: the block neither flushes nor empties it.
BufferAfterThrow(buffer) == buffer

\* The event stream throws, lines 410-429 of the hook: the status becomes
\* idle, the error goes to onOutput and 'Error' to onStatus.  What the
\* program had still to write never arrives.
StreamThrows(message) ==
  /\ kernelStatus = "busy"
  /\ kernelStatus' = "idle"
  /\ stdout' = ""
  /\ stdoutBuffer' = BufferAfterThrow(stdoutBuffer)
  /\ LET log == OutputLog("error", message)
         a == attemptOnStatus(attemptOnOutput(HookAttempt, log), "Error")
     IN  /\ settlement' = a.settlement
         /\ timeoutHandle' = a.timeoutHandle
         /\ callbacks' = callbacks \o << log, StatusEvent("Error") >>
         /\ SetProgress(a.progress)
  /\ UNCHANGED <<outputs, resolved, streamed>>
  /\ UNCHANGED <<engineVars, pageVars, bridgeVars>>

\* The executions followed on one hook.
MaxKernelRuns == 2

\* executeCode(code, callbacks), lines 380-388 of the hook: the next
\* execution starts on the same hook with callbacks of its own; the refs of
\* lines 281-283 are the ones of the execution before.
executeCode(program) ==
  /\ kernelStatus = "idle"
  /\ executions < MaxKernelRuns
  /\ executions' = executions + 1
  /\ kernelStatus' = "busy"
  /\ stdout' = program
  /\ streamed' = ""
  /\ outputs' = << >>
  /\ resolved' = << >>
  /\ settlement' = << >>
  /\ callbacks' = << >>
  /\ UNCHANGED <<stdoutBuffer, timeoutHandle, progressVars>>
  /\ UNCHANGED <<wrapper_pc, py_messages, response_message, tool_idx, turns,
                 tool_result_cache, total_tool_calls, successful_tool_calls,
                 successful_tool_results, timeout_finalize_requested,
                 soft_deadline_passed, proxy_requests, invocations,
                 sent_responses, service_answers, sandbox_globals,
                 cached_tool_specs, cached_tool_names, discovery, scans,
                 loadedAgent>>
  /\ UNCHANGED <<pageVars, bridgeVars>>

\* What the code of an execution prints: two lines, an unfinished line, a
\* marker line.
ShortPrograms == {"ab\ncd\n", "ef", MarkerLine("ok") \o "\n"}

ExecutionsNext ==
  \/ \E program \in ShortPrograms : executeCode(program)
  \/ \E n \in ChunkSizes : StreamEvent(n)
  \/ ExecutionEnds
  \/ StreamThrows("stream failed")

InitExecutions ==
  PageQuiet /\ EngineInit /\ BridgeQuiet /\ HookQuiet /\ outputObserved = TRUE

SpecExecutions == InitExecutions /\ [][ExecutionsNext]_vars

\* The non-empty lines of the text this execution's stream has carried, the
\* unfinished last line included.
LinesOfThisExecution == NonEmpty(StreamSplit.lines \o << StreamSplit.remainder >>)

\* C40: output left in the line buffer when an execution ended abnormally
\* is never delivered to the callbacks of a later execution nor prepended
\* to its first output line: what the callbacks of an execution have
\* received are lines of the text that execution's own stream carried, in
\* order.
C40_NoOutputFromEarlierExecution ==
  /\ Len(outputs) <= Len(LinesOfThisExecution)
  /\ \A i \in DOMAIN outputs : outputs[i] = LinesOfThisExecution[i]

====
